---- MODULE Spec2Model ----
(***************************************************************************)
(* Model of the chat front-end in app.py: the response extractor           *)
(* (get_agent_response), the content formatter (parse_markdown_table,      *)
(* format_response_content), the chat session callback (update_chat), the  *)
(* token lookup (get_databricks_token) and the client cache (get_client);  *)
(* and of the attrition_reason column of the two table-builder scripts.    *)
(*                                                                         *)
(* A text (a Python str) is a sequence of one-character strings.  Offsets  *)
(* into a text are Python offsets (0-based, end exclusive); a regex        *)
(* position p is the 1-based index of the next character to read.          *)
(*                                                                         *)
(* A value that a definition needs more than once is handed to it as a     *)
(* parameter instead of being named in a LET, and a search over a text     *)
(* halves its range instead of stepping through it: both keep the          *)
(* evaluation of a long text shallow.                                      *)
(***************************************************************************)
EXTENDS Integers, Sequences, FiniteSets, TLC

VARIABLES
    xReply,     \* extractor run: what client acquisition and the endpoint call do
    xResult,    \* extractor run: the outcome of get_agent_response
    xPc,        \* extractor run: "input" or "done"
    fText,      \* formatter run: the content handed to format_response_content
    fOut,       \* formatter run: the outcome of format_response_content
    fPc,        \* formatter run: where the run is, and the number of pieces
    store,      \* chat: the conversation-history dcc.Store held by the page
    display,    \* chat: the chat-history children held by the page
    inflight,   \* chat: the callback requests sent and not yet answered
    lastCall,   \* chat: the last invocation of update_chat, as it ended
    nSends,     \* chat: the number of events the page has sent since it was loaded
    rIn,        \* row run: the cells of a data row and the number of header columns
    rOut,       \* row run: the cells after column-count reconciliation
    rPc,        \* row run: "input" or "done"
    tEnv,       \* token run: the environment get_databricks_token reads
    tOut,       \* token run: what get_databricks_token returned
    tPc,        \* token run: "input" or "done"
    cached,     \* client: the module variable _cached_client
    made,       \* client: the clients created so far, in order of creation
    gLast,      \* client: the last call of get_client, as it ended
    nCalls,     \* client: the number of calls made of get_client directly so far
    waiting,    \* client: the calls past the test of line 108 that have not returned
    served,     \* client: the clients this process has returned to calls without user token
    aRow,       \* attrition run: the columns of one row of the attrition table
    aOut,       \* attrition run: the attrition_reason computed for the row
    aPc         \* attrition run: "input" or "done"

rowVars == <<rIn, rOut, rPc>>

tokenVars == <<tEnv, tOut, tPc>>

clientVars == <<cached, made, gLast, nCalls, waiting, served>>

attrVars == <<aRow, aOut, aPc>>

vars == <<xReply, xResult, xPc, fText, fOut, fPc, store, display, inflight, lastCall, nSends,
          rowVars, tokenVars, clientVars, attrVars>>

-----------------------------------------------------------------------------
(* Characters and Python's str primitives                                  *)

WS == {" ", "\t", "\n", "\r", "\f"}

IsSpace(c) == c \in WS

IsDigit(c) == c \in {"0", "1", "2", "3", "4", "5", "6", "7", "8", "9"}

UpperLetters == <<"A", "B", "C", "D", "E", "F", "G", "H", "I", "J", "K", "L", "M",
                  "N", "O", "P", "Q", "R", "S", "T", "U", "V", "W", "X", "Y", "Z">>

LowerLetters == <<"a", "b", "c", "d", "e", "f", "g", "h", "i", "j", "k", "l", "m",
                  "n", "o", "p", "q", "r", "s", "t", "u", "v", "w", "x", "y", "z">>

IsUpper(c) == \E i \in 1..26 : UpperLetters[i] = c

IsLower(c) == \E i \in 1..26 : LowerLetters[i] = c

IsAlpha(c) == IsUpper(c) \/ IsLower(c)

\* str.lower() on one character
LowerChar(c) == IF IsUpper(c) THEN LowerLetters[CHOOSE i \in 1..26 : UpperLetters[i] = c] ELSE c

\* str.upper() on one character
UpperChar(c) == IF IsLower(c) THEN UpperLetters[CHOOSE i \in 1..26 : LowerLetters[i] = c] ELSE c

\* \w of the re module, on the characters of the model
IsWord(c) == IsAlpha(c) \/ IsDigit(c) \/ c = "_"

MinOf(a, b) == IF a < b THEN a ELSE b

MaxOf(a, b) == IF a > b THEN a ELSE b

\* x, or d when x is 0 (0 stands for "no position")
IfZero(x, d) == IF x = 0 THEN d ELSE x

\* s[a:b] with 0 <= a, 0 <= b: Python clamps both to len(s)
Slice(s, a, b) ==
    IF MinOf(b, Len(s)) <= MinOf(a, Len(s)) THEN <<>>
    ELSE SubSeq(s, MinOf(a, Len(s)) + 1, MinOf(b, Len(s)))

\* s[a:]
SliceFrom(s, a) == Slice(s, a, Len(s))

\* character classes of the patterns, by name; a one-character name is the
\* class of that character
InClass(k, c) ==
    CASE k = "notnl"     -> c # "\n"                            \* [^\n] and .
      [] k = "sep"       -> c \in {"-", ":", "|"} \/ IsSpace(c)  \* [-:\s|]
      [] k = "notnlpipe" -> c \notin {"\n", "|"}                \* [^\n\|]
      [] k = "space"     -> IsSpace(c)                          \* \s
      [] k = "colondash" -> c \in {":", "-"}                    \* [:-]
      [] k = "blanktab"  -> c \in {" ", "\t"}                   \* [ \t]
      [] OTHER           -> c = k

RECURSIVE FirstAt(_, _, _, _, _)
\* the first q in lo..hi with (t[q] in class k) = want, 0 if there is none
FirstAt(t, k, want, lo, hi) ==
    IF lo > hi THEN 0
    ELSE IF lo = hi THEN (IF InClass(k, t[lo]) = want THEN lo ELSE 0)
    ELSE IfZero(FirstAt(t, k, want, lo, (lo + hi) \div 2),
                FirstAt(t, k, want, (lo + hi) \div 2 + 1, hi))

RECURSIVE LastAt(_, _, _, _, _)
\* the last q in lo..hi with (t[q] in class k) = want, 0 if there is none
LastAt(t, k, want, lo, hi) ==
    IF lo > hi THEN 0
    ELSE IF lo = hi THEN (IF InClass(k, t[lo]) = want THEN lo ELSE 0)
    ELSE IfZero(LastAt(t, k, want, (lo + hi) \div 2 + 1, hi),
                LastAt(t, k, want, lo, (lo + hi) \div 2))

\* first index >= i whose character is not whitespace (Len(s)+1 if none)
SkipSpaceFwd(s, i) == IfZero(FirstAt(s, "space", FALSE, i, Len(s)), MaxOf(i, Len(s) + 1))

\* last index <= i whose character is not whitespace (0 if none)
SkipSpaceBwd(s, i) == LastAt(s, "space", FALSE, 1, i)

\* str.strip()
Strip(s) == SubSeq(s, SkipSpaceFwd(s, 1), SkipSpaceBwd(s, Len(s)))

\* the truth value of s.strip()
IsBlank(s) == FirstAt(s, "space", FALSE, 1, Len(s)) = 0

\* c in s
HasChar(s, c) == FirstAt(s, c, TRUE, 1, Len(s)) # 0

\* the indices of s that hold c, in increasing order
Positions(s, c) == SelectSeq([i \in 1..Len(s) |-> i], LAMBDA q : s[q] = c)

\* the pieces of s between the separators at the indices at
SplitAt(s, at) ==
    [k \in 1..(Len(at) + 1) |->
        SubSeq(s, IF k = 1 THEN 1 ELSE at[k - 1] + 1,
                  IF k > Len(at) THEN Len(s) ELSE at[k] - 1)]

\* s.split(c) for a one-character separator: always at least one piece
Split(s, c) == SplitAt(s, Positions(s, c))

RECURSIVE JoinRange(_, _, _, _)
\* sep.join(parts[lo..hi])
JoinRange(parts, sep, lo, hi) ==
    IF lo > hi THEN <<>>
    ELSE IF lo = hi THEN parts[lo]
    ELSE JoinRange(parts, sep, lo, (lo + hi) \div 2) \o sep
         \o JoinRange(parts, sep, (lo + hi) \div 2 + 1, hi)

\* sep.join(parts)
Join(parts, sep) == JoinRange(parts, sep, 1, Len(parts))

\* [x.strip() for x in xs]
StripAll(xs) == [i \in 1..Len(xs) |-> Strip(xs[i])]

\* s.lower()
Lower(s) == [i \in 1..Len(s) |-> LowerChar(s[i])]

\* s.isdigit() for the ASCII digits
IsDigitStr(s) == Len(s) > 0 /\ \A i \in 1..Len(s) : IsDigit(s[i])

\* s[p:].startswith(pat), p a 1-based position
StartsAt(s, pat, p) ==
    /\ p + Len(pat) - 1 <= Len(s)
    /\ \A k \in 1..Len(pat) : s[p + k - 1] = pat[k]

\* s.startswith(pat, ...) ignoring case (re.IGNORECASE on ASCII letters)
StartsAtNoCase(s, pat, p) ==
    /\ p + Len(pat) - 1 <= Len(s)
    /\ \A k \in 1..Len(pat) : LowerChar(s[p + k - 1]) = LowerChar(pat[k])

\* pat in s
HasSub(s, pat) == \E p \in 1..(Len(s) + 1) : StartsAt(s, pat, p)

-----------------------------------------------------------------------------
(* Regular-expression pieces shared by the patterns of the formatter       *)

\* the position after the longest run of class k starting at p
RunEnd(t, p, k) == IfZero(FirstAt(t, k, FALSE, p, Len(t)), MaxOf(p, Len(t) + 1))

\* the last position in lo..hi that is at most Len(t) and holds a character
\* of class k (0: none): where a quantifier that gives back characters one
\* by one next lets the piece after it, which starts with class k, match
PrevIn(t, lo, hi, k) == LastAt(t, k, TRUE, lo, MinOf(hi, Len(t)))

\* the first such position in lo..hi (0: none), for a lazy quantifier
NextIn(t, lo, hi, k) == FirstAt(t, k, TRUE, lo, MinOf(hi, Len(t)))

\* (?:\r?\n|\r) at p: the positions after it, in the order the matcher tries them
NLEnds(t, p) ==
    (IF p + 1 <= Len(t) /\ t[p] = "\r" /\ t[p + 1] = "\n" THEN << p + 2 >> ELSE <<>>)
    \o (IF p <= Len(t) /\ t[p] = "\n" THEN << p + 1 >> ELSE <<>>)
    \o (IF p <= Len(t) /\ t[p] = "\r" THEN << p + 1 >> ELSE <<>>)

-----------------------------------------------------------------------------
(* The pipe-table pattern of parse_markdown_table (patterns[0]):           *)
(*   \|[^\n]*\|NL  \|[-:\s|]+\|NL  ((?:\|[^\n]*\|NL)+)   NL = (?:\r?\n|\r) *)

RECURSIVE RowBack(_, _, _)
\* \|[^\n]*\|NL with the class giving back: the closing bar is tried at b,
\* then at the bars before b down to lo (b = 0: no bar left)
RowBack(t, b, lo) ==
    IF b = 0 THEN <<>>
    ELSE NLEnds(t, b + 1) \o RowBack(t, PrevIn(t, lo, b - 1, "|"), lo)

\* \|[^\n]*\|NL at p: the positions after it, in the matcher's order
RowEnds(t, p) ==
    IF p > Len(t) \/ t[p] # "|" THEN <<>>
    ELSE RowBack(t, PrevIn(t, p + 1, RunEnd(t, p + 1, "notnl"), "|"), p + 1)

\* \|[-:\s|]+\|NL at p: the class takes at least one character
SepEnds(t, p) ==
    IF p > Len(t) \/ t[p] # "|" THEN <<>>
    ELSE RowBack(t, PrevIn(t, p + 2, RunEnd(t, p + 1, "sep"), "|"), p + 2)

RECURSIVE RowsEnd(_, _)
\* (?:\|[^\n]*\|NL)+, last in the pattern, given the ends e of its first
\* round: every round takes its first match and the group stops at the
\* first round that fails (0: no round)
RowsEnd(t, e) ==
    IF e = <<>> THEN 0
    ELSE IfZero(RowsEnd(t, RowEnds(t, e[1])), e[1])

RECURSIVE PipeTrySep(_, _, _)
\* the data rows tried after each end of the separator row, from the j-th on
PipeTrySep(t, seps, j) ==
    IF j > Len(seps) THEN 0
    ELSE IfZero(RowsEnd(t, RowEnds(t, seps[j])), PipeTrySep(t, seps, j + 1))

RECURSIVE PipeTryHeader(_, _, _)
\* the separator row tried after each end of the header row, from the i-th on
PipeTryHeader(t, hdrs, i) ==
    IF i > Len(hdrs) THEN 0
    ELSE IfZero(PipeTrySep(t, SepEnds(t, hdrs[i]), 1), PipeTryHeader(t, hdrs, i + 1))

\* the position after the match of the pipe pattern at p (0: no match at p)
PipeMatchEnd(t, p) == PipeTryHeader(t, RowEnds(t, p), 1)

RECURSIVE FirstPipeMatch(_, _, _)
\* the first position in lo..hi at which the pipe pattern matches (0: none)
FirstPipeMatch(t, lo, hi) ==
    IF lo > hi THEN 0
    ELSE IF lo = hi THEN (IF PipeMatchEnd(t, lo) # 0 THEN lo ELSE 0)
    ELSE IfZero(FirstPipeMatch(t, lo, (lo + hi) \div 2),
                FirstPipeMatch(t, (lo + hi) \div 2 + 1, hi))

RECURSIVE PipeMatches(_, _)
RECURSIVE PipeMatchesFrom(_, _, _)
\* the match that starts at s and ends before e, then the matches after it
PipeMatchesFrom(t, s, e) ==
    << [start |-> s - 1, end |-> e - 1] >> \o PipeMatches(t, FirstPipeMatch(t, e, Len(t)))

\* re.finditer(pipe_pattern, text): the spans [start, end) of the match that
\* starts at position s and of those after it (s = 0: no match left)
PipeMatches(t, s) ==
    IF s = 0 THEN <<>> ELSE PipeMatchesFrom(t, s, PipeMatchEnd(t, s))

-----------------------------------------------------------------------------
(* The tab-table pattern of parse_markdown_table (tab_pattern):            *)
(*   ([^\n\|]+\t[^\n\|]+) \s*\n\s* ([:-]+\s+[:-]+.*?) \s*\n                *)
(*   ((?:[^\n\|]+\t[^\n\|]+\s*\n?)+)                                       *)
(* A failed attempt is NoTab; a match is [start, end, g1end, g3start] in   *)
(* positions. Each definition below is one quantifier, tried in the        *)
(* matcher's order (greedy: longest first; lazy: shortest first) at the    *)
(* position it is given, then at the next one at which the piece that      *)
(* follows can begin, since at the others that piece fails on its first    *)
(* character.                                                              *)

NoTab == [start |-> 0, end |-> 0, g1end |-> 0, g3start |-> 0]

\* r, or alt when r is no match
OrTab(r, alt) == IF r # NoTab THEN r ELSE alt

\* the match that ends before r (r = 0: group 3 found no round)
TabResult(p, q, g3start, r) ==
    IF r = 0 THEN NoTab ELSE [start |-> p, end |-> r, g1end |-> q, g3start |-> g3start]

\* one round [^\n\|]+\t[^\n\|]+\s*\n? of group 3, whose cell run spans s..g-1:
\* the run must hold a tab with a character before it and one after it; \s*
\* then takes all the whitespace that follows, so \n? has nothing left to
\* take (0: no round)
TabRoundAt(t, s, g) ==
    IF PrevIn(t, s + 1, g - 2, "\t") # 0 THEN RunEnd(t, g, "space") ELSE 0

\* one round of group 3 at s
TabRoundEnd(t, s) == TabRoundAt(t, s, RunEnd(t, s, "notnlpipe"))

RECURSIVE TabRoundsEnd(_, _)
\* group 3, last in the pattern, given the end e of its first round: rounds
\* are taken while one matches
TabRoundsEnd(t, e) ==
    IF e = 0 THEN 0
    ELSE IfZero(TabRoundsEnd(t, TabRoundEnd(t, e)), e)

RECURSIVE TabSepTail(_, _, _, _, _)
\* \s*\n before group 3: \s* gives back down to d, \n is read at u
TabSepTail(t, p, q, u, d) ==
    IF u = 0 THEN NoTab
    ELSE OrTab(TabResult(p, q, u + 1, TabRoundsEnd(t, TabRoundEnd(t, u + 1))),
               TabSepTail(t, p, q, PrevIn(t, d, u - 1, "\n"), d))

RECURSIVE TabLazy(_, _, _, _, _)
\* .*? grows up to dmax: \s*\n is tried at d, where it can start (at a
\* whitespace character)
TabLazy(t, p, q, d, dmax) ==
    IF d = 0 THEN NoTab
    ELSE OrTab(TabSepTail(t, p, q, PrevIn(t, d, RunEnd(t, d, "space"), "\n"), d),
               TabLazy(t, p, q, NextIn(t, d + 1, dmax, "space"), dmax))

RECURSIVE TabDash2(_, _, _, _, _)
\* the second [:-]+ ending at c, c-1, .., lo
TabDash2(t, p, q, c, lo) ==
    IF c < lo THEN NoTab
    ELSE OrTab(TabLazy(t, p, q, NextIn(t, c, RunEnd(t, c, "notnl"), "space"),
                       RunEnd(t, c, "notnl")),
               TabDash2(t, p, q, c - 1, lo))

RECURSIVE TabGap(_, _, _, _, _)
\* \s+ gives back down to lo: the second [:-]+ is tried at z
TabGap(t, p, q, z, lo) ==
    IF z = 0 THEN NoTab
    ELSE OrTab(TabDash2(t, p, q, RunEnd(t, z, "colondash"), z + 1),
               TabGap(t, p, q, PrevIn(t, lo, z - 1, "colondash"), lo))

RECURSIVE TabDash1(_, _, _, _, _)
\* the first [:-]+ gives back down to lo: \s+ is tried at y
TabDash1(t, p, q, y, lo) ==
    IF y = 0 THEN NoTab
    ELSE OrTab(TabGap(t, p, q, PrevIn(t, y + 1, RunEnd(t, y, "space"), "colondash"), y + 1),
               TabDash1(t, p, q, PrevIn(t, lo, y - 1, "space"), lo))

RECURSIVE TabLead(_, _, _, _, _)
\* the \s* after the header's \n gives back down to lo: the first [:-]+ is
\* tried at x
TabLead(t, p, q, x, lo) ==
    IF x = 0 THEN NoTab
    ELSE OrTab(TabDash1(t, p, q, PrevIn(t, x + 1, RunEnd(t, x, "colondash"), "space"), x + 1),
               TabLead(t, p, q, PrevIn(t, lo, x - 1, "colondash"), lo))

RECURSIVE TabHeadTail(_, _, _, _)
\* the \s*\n after group 1: \s* gives back down to q, \n is read at u
TabHeadTail(t, p, q, u) ==
    IF u = 0 THEN NoTab
    ELSE OrTab(TabLead(t, p, q, PrevIn(t, u + 1, RunEnd(t, u + 1, "space"), "colondash"), u + 1),
               TabHeadTail(t, p, q, PrevIn(t, q, u - 1, "\n")))

RECURSIVE TabCell2(_, _, _, _)
\* the second [^\n\|]+ of group 1 gives back down to lo: \s*\n is tried at
\* q, where it can start (at a whitespace character)
TabCell2(t, p, q, lo) ==
    IF q = 0 THEN NoTab
    ELSE OrTab(TabHeadTail(t, p, q, PrevIn(t, q, RunEnd(t, q, "space"), "\n")),
               TabCell2(t, p, PrevIn(t, lo, q - 1, "space"), lo))

RECURSIVE TabCell1(_, _, _, _)
\* the first [^\n\|]+ of group 1 gives back down to lo: \t is read at a
TabCell1(t, p, a, lo) ==
    IF a = 0 THEN NoTab
    ELSE OrTab(TabCell2(t, p, PrevIn(t, a + 2, RunEnd(t, a + 1, "notnlpipe"), "space"), a + 2),
               TabCell1(t, p, PrevIn(t, lo, a - 1, "\t"), lo))

\* the match of the tab pattern at p (NoTab: no match at p)
TabMatchAt(t, p) ==
    IF p > Len(t) \/ ~InClass("notnlpipe", t[p]) THEN NoTab
    ELSE TabCell1(t, p, PrevIn(t, p + 1, RunEnd(t, p, "notnlpipe"), "\t"), p + 1)

RECURSIVE FirstTabMatch(_, _, _)
\* the first position in lo..hi at which the tab pattern matches (0: none)
FirstTabMatch(t, lo, hi) ==
    IF lo > hi THEN 0
    ELSE IF lo = hi THEN (IF TabMatchAt(t, lo) # NoTab THEN lo ELSE 0)
    ELSE IfZero(FirstTabMatch(t, lo, (lo + hi) \div 2),
                FirstTabMatch(t, (lo + hi) \div 2 + 1, hi))

RECURSIVE TabMatches(_, _)
RECURSIVE TabMatchesFrom(_, _)
\* the match m, then the matches after it
TabMatchesFrom(t, m) == << m >> \o TabMatches(t, FirstTabMatch(t, m.end, Len(t)))

\* re.finditer(tab_pattern, text): the match that starts at position s and
\* those after it (s = 0: no match left)
TabMatches(t, s) ==
    IF s = 0 THEN <<>> ELSE TabMatchesFrom(t, TabMatchAt(t, s))

-----------------------------------------------------------------------------
(* parse_markdown_table                                                    *)

\* the two while-loops that pop empty cells from the start and the end
TrimCells(cells) ==
    LET keep == {i \in 1..Len(cells) : cells[i] # <<>>}
    IN IF keep = {} THEN <<>>
       ELSE SubSeq(cells, CHOOSE i \in keep : \A j \in keep : i <= j,
                          CHOOSE i \in keep : \A j \in keep : i >= j)

\* [c.strip() for c in line.split(sep)]
StripCells(line, sep) == StripAll(Split(line, sep))

\* the separator test of the line loop: bars and dashes present, nothing but
\* bars, dashes, colons, spaces and tabs
IsSeparatorLine(line) ==
    /\ HasChar(line, "|")
    /\ HasChar(line, "-")
    /\ \A i \in 1..Len(line) : line[i] \in {"|", "-", ":", " ", "\t"}

\* the index (1-based) of the first separator line, 0 if there is none
SeparatorIdx(lines) ==
    LET seps == {i \in 1..Len(lines) : IsSeparatorLine(lines[i])}
    IN IF seps = {} THEN 0 ELSE CHOOSE i \in seps : \A j \in seps : i <= j

\* the cells left as they were read, neither cut nor padded
CellsAsRead(cells, num_cols) == cells

\* cells cut or padded with empty cells to num_cols
PadCells(cells, num_cols) ==
    IF Len(cells) >= num_cols THEN Slice(cells, 0, num_cols)
    ELSE cells \o [i \in 1..(num_cols - Len(cells)) |-> <<>>]

\* the reconciliation that never takes a first cell for a row index
ReconcileRowFirstN(raw_cells, num_cols) == PadCells(raw_cells, num_cols)

\* column-count reconciliation of one data row (raw_cells is not empty)
ReconcileRow(raw_cells, num_cols) ==
    PadCells(IF Len(raw_cells) > num_cols /\ IsDigitStr(raw_cells[1])
             THEN Slice(raw_cells, 1, num_cols + 1)
             ELSE raw_cells,
             num_cols)

\* the row kept whatever its cells are
KeepAnyRow(cells) == << cells >>

\* any(c for c in cells): the row is kept
KeepRow(cells) == IF \E i \in 1..Len(cells) : cells[i] # <<>> THEN << cells >> ELSE <<>>

\* one pass of the data-row loop: the row appended (none for a line without
\* cells or with empty cells only)
PipeRow(raw_cells, num_cols) ==
    IF raw_cells = <<>> THEN <<>> ELSE KeepRow(ReconcileRow(raw_cells, num_cols))

RECURSIVE PipeRows(_, _, _)
\* the data-row loop over lines[i..]
PipeRows(lines, i, num_cols) ==
    IF i > Len(lines) THEN <<>>
    ELSE PipeRow(TrimCells(StripCells(lines[i], "|")), num_cols)
         \o PipeRows(lines, i + 1, num_cols)

\* the stripped lines of a candidate that are not blank and hold a bar
CandidateLines(table_text) ==
    StripAll(SelectSeq(Split(Strip(table_text), "\n"),
                       LAMBDA line : ~IsBlank(line) /\ HasChar(line, "|")))

\* a table appended whatever the header and the rows are
TableOfAny(headers, data, start, end) ==
    << [header |-> headers, rows |-> data, start |-> start, end |-> end] >>

\* the table appended for a header and its data rows (none without rows)
TableOf(headers, data, start, end) ==
    IF headers = <<>> \/ data = <<>> THEN <<>>
    ELSE << [header |-> headers, rows |-> data, start |-> start, end |-> end] >>

\* the header before the separator line and the rows after it
TableAtSep(lines, sep, headers, start, end) ==
    IF headers = <<>> THEN <<>>
    ELSE TableOf(headers, PipeRows(lines, sep + 1, Len(headers)), start, end)

\* the candidate's lines, with the index of their separator line
TableOfLines(lines, sep, start, end) ==
    IF Len(lines) < 2 \/ sep = 0 \/ sep = 1 THEN <<>>
    ELSE TableAtSep(lines, sep, TrimCells(StripCells(lines[sep - 1], "|")), start, end)

\* the lines of one candidate
TableOfCandidate(lines, start, end) == TableOfLines(lines, SeparatorIdx(lines), start, end)

\* the body of the loop over the pipe matches: the tables (none or one)
\* that the match [start, end) of text yields
PipeTable(text, start, end) ==
    TableOfCandidate(CandidateLines(Slice(text, start, end)), start, end)

RECURSIVE PipeTables(_, _, _)
PipeTables(text, ms, i) ==
    IF i > Len(ms) THEN <<>>
    ELSE PipeTable(text, ms[i].start, ms[i].end) \o PipeTables(text, ms, i + 1)

\* [[c.strip() for c in line.split(sep)] for line in lines]
SplitLines(lines, sep) == [i \in 1..Len(lines) |-> StripCells(lines[i], sep)]

\* the rows of a tab table: the lines that are not blank, split at tabs, of
\* as many cells as there are headers
TabRows(data_lines, num_cols) ==
    SelectSeq(SplitLines(SelectSeq(data_lines, LAMBDA line : ~IsBlank(line)), "\t"),
              LAMBDA cells : Len(cells) = num_cols)

\* the table of a header and the lines of group 3
TabTableOf(headers, data_lines, start, end) ==
    TableOf(headers, TabRows(data_lines, Len(headers)), start, end)

\* the body of the loop over the tab matches
TabTable(text, m) ==
    TabTableOf(SelectSeq(StripCells(Strip(SubSeq(text, m.start, m.g1end - 1)), "\t"),
                         LAMBDA h : h # <<>>),
               Split(Strip(SubSeq(text, m.g3start, m.end - 1)), "\n"),
               m.start - 1, m.end - 1)

RECURSIVE TabTables(_, _, _)
TabTables(text, ms, i) ==
    IF i > Len(ms) THEN <<>>
    ELSE TabTable(text, ms[i]) \o TabTables(text, ms, i + 1)

\* the list `tables` in the order the code appends to it: the pipe tables,
\* then the tab tables
ExtractTables(text) ==
    PipeTables(text, PipeMatches(text, FirstPipeMatch(text, 1, Len(text))), 1)
    \o TabTables(text, TabMatches(text, FirstTabMatch(text, 1, Len(text))), 1)

RECURSIVE InsertByStart(_, _)
\* x put behind every table of the sorted list that starts no later
InsertByStart(sorted, x) ==
    IF sorted = <<>> THEN << x >>
    ELSE IF sorted[Len(sorted)].start <= x.start THEN Append(sorted, x)
    ELSE Append(InsertByStart(SubSeq(sorted, 1, Len(sorted) - 1), x), sorted[Len(sorted)])

RECURSIVE SortByStart(_, _)
\* sorted(tables, key=lambda x: x[1]) over tables[1..n]: stable
SortByStart(tables, n) ==
    IF n = 0 THEN <<>>
    ELSE InsertByStart(SortByStart(tables, n - 1), tables[n])

RECURSIVE RemoveSpans(_, _, _)
\* the removal loop over reversed(sorted): spans sorted[i], sorted[i-1], ..
RemoveSpans(remaining, sorted, i) ==
    IF i = 0 THEN remaining
    ELSE RemoveSpans(Slice(remaining, 0, sorted[i].start) \o SliceFrom(remaining, sorted[i].end),
                     sorted, i - 1)

\* remaining_text.strip()
SummaryOf(text, tables) ==
    Strip(RemoveSpans(text, SortByStart(tables, Len(tables)), Len(tables)))

\* the pair returned for the tables found
ParseResult(text, tables) == [tables |-> tables, summary |-> SummaryOf(text, tables)]

parse_markdown_table(text) == ParseResult(text, ExtractTables(text))

-----------------------------------------------------------------------------
(* format_response_content                                                 *)

\* characters outside ASCII are written by code point
EmDash == "U+2014"

WarningSign == "U+26A0"

VariationSelector == "U+FE0F"

NameOpen == << "<", "n", "a", "m", "e", ">" >>

NameClose == << "<", "/", "n", "a", "m", "e", ">" >>

EmptyWord == << "E", "M", "P", "T", "Y" >>

SupervisorWord == << "s", "u", "p", "e", "r", "v", "i", "s", "o", "r" >>

\* [s[i] for i in at]
Pick(s, at) == [j \in 1..Len(at) |-> s[at[j]]]

\* the indices 1..n that satisfy a test, in increasing order
Indices(n) == [i \in 1..n |-> i]

RECURSIVE FirstCloseOrNL(_, _, _)
\* the first position in lo..hi that holds a newline or starts </name>
FirstCloseOrNL(t, lo, hi) ==
    IF lo > hi THEN 0
    ELSE IF lo = hi THEN (IF StartsAt(t, NameClose, lo) \/ t[lo] = "\n" THEN lo ELSE 0)
    ELSE IfZero(FirstCloseOrNL(t, lo, (lo + hi) \div 2),
                FirstCloseOrNL(t, (lo + hi) \div 2 + 1, hi))

\* r if </name> starts there (0: .*? met a newline or the end first)
CloseAt(t, r) == IF r # 0 /\ StartsAt(t, NameClose, r) THEN r ELSE 0

\* <name>(.*?)</name> with the tag opened before q: the position of the
\* first </name> that .*? reaches without crossing a newline (0: none)
NameTagClose(t, q) == CloseAt(t, FirstCloseOrNL(t, q, Len(t)))

\* the tag that opens at p closes at (0: no tag at p)
NameTagAt(t, p) == IF StartsAt(t, NameOpen, p) THEN NameTagClose(t, p + 6) ELSE 0

RECURSIVE FirstNameTag(_, _, _)
\* the first position in lo..hi at which <name>(.*?)</name> matches (0: none)
FirstNameTag(t, lo, hi) ==
    IF lo > hi THEN 0
    ELSE IF lo = hi THEN (IF NameTagAt(t, lo) # 0 THEN lo ELSE 0)
    ELSE IfZero(FirstNameTag(t, lo, (lo + hi) \div 2),
                FirstNameTag(t, (lo + hi) \div 2 + 1, hi))

RECURSIVE NameTags(_, _)
RECURSIVE NameTagsFrom(_, _, _)
\* the tag that opens at s and closes at c, then the tags after it
NameTagsFrom(t, s, c) ==
    << [start |-> s, close |-> c] >> \o NameTags(t, FirstNameTag(t, c + 7, Len(t)))

\* the matches of <name>(.*?)</name>, the first of them at s (0: none):
\* [start, close] positions
NameTags(t, s) == IF s = 0 THEN <<>> ELSE NameTagsFrom(t, s, NameTagAt(t, s))

\* every match of <name>(.*?)</name> in content
AllNameTags(content) == NameTags(content, FirstNameTag(content, 1, Len(content)))

\* group 1 of each match
TagTexts(content, ms) ==
    [i \in 1..Len(ms) |-> SubSeq(content, ms[i].start + 6, ms[i].close - 1)]

\* re.findall(r'<name>(.*?)</name>', content)
AgentNames(content) == TagTexts(content, AllNameTags(content))

RECURSIVE DropTags(_, _, _, _)
DropTags(t, ms, i, p) ==
    IF i > Len(ms) THEN SubSeq(t, p, Len(t))
    ELSE SubSeq(t, p, ms[i].start - 1) \o DropTags(t, ms, i + 1, ms[i].close + 7)

\* re.sub(r'<name>.*?</name>', '', content)
RemoveNameTags(content) == DropTags(content, AllNameTags(content), 1, 1)

\* \bEMPTY\b at p, ignoring case
EmptyWordAt(t, p) ==
    /\ StartsAtNoCase(t, EmptyWord, p)
    /\ p = 1 \/ ~IsWord(t[p - 1])
    /\ p + 5 > Len(t) \/ ~IsWord(t[p + 5])

\* re.sub(r'\bEMPTY\b', '', t, flags=re.IGNORECASE): two matches cannot
\* overlap, so a character goes exactly if a match covers it
RemoveEmptyWord(t) ==
    Pick(t, SelectSeq(Indices(Len(t)),
                      LAMBDA i : ~\E p \in MaxOf(1, i - 4)..i : EmptyWordAt(t, p)))

\* content_clean: tags removed, stripped, then the EMPTY marker removed
ContentClean(content) == RemoveEmptyWord(Strip(RemoveNameTags(content)))

\* the characters at the indices kept, a blank or tab written as a blank
BlanksOf(t, kept) ==
    [j \in 1..Len(kept) |-> IF InClass("blanktab", t[kept[j]]) THEN " " ELSE t[kept[j]]]

\* re.sub(r'[ \t]+', ' ', t): of each run of blanks and tabs the first
\* character stays, as a blank
CollapseBlanks(t) ==
    BlanksOf(t, SelectSeq(Indices(Len(t)),
                          LAMBDA i : ~InClass("blanktab", t[i])
                                     \/ i = 1 \/ ~InClass("blanktab", t[i - 1])))

\* the normalized summary
NormalizeSummary(summary) == Strip(CollapseBlanks(summary))

\* list(dict.fromkeys(names))
UniqueNames(names) ==
    Pick(names, SelectSeq(Indices(Len(names)),
                          LAMBDA i : \A j \in 1..(i - 1) : names[j] # names[i]))

\* the worker filter: 'supervisor' not in a.lower()
IsWorker(a) == ~HasSub(Lower(a), SupervisorWord)

\* worker_agents
WorkerAgents(names) == SelectSeq(UniqueNames(names), IsWorker)

\* str.title(): a letter is upper-cased unless the character before it is a letter
Title(s) ==
    [i \in 1..Len(s) |->
        IF ~IsAlpha(s[i]) THEN s[i]
        ELSE IF i > 1 /\ IsAlpha(s[i - 1]) THEN LowerChar(s[i]) ELSE UpperChar(s[i])]

\* agent.replace('_', ' ').title()
BadgeText(agent) == Title([i \in 1..Len(agent) |-> IF agent[i] = "_" THEN " " ELSE agent[i]])

\* a component of the returned list
Seg(kind, text, names, header, rows) ==
    [kind |-> kind, text |-> text, names |-> names, header |-> header, rows |-> rows]

\* the Div holding one badge for each worker agent (none without workers)
BadgeSeg(workers) ==
    IF workers = <<>> THEN <<>>
    ELSE << Seg("Badges", <<>>, [i \in 1..Len(workers) |-> BadgeText(workers[i])], <<>>, <<>>) >>

BadgeSegs(names) == BadgeSeg(WorkerAgents(names))

\* the paragraph list: the stripped lines of the summary longer than 3
Paragraphs(summary_text) ==
    SelectSeq(StripAll(Split(summary_text, "\n")), LAMBDA p : p # <<>> /\ Len(p) > 3)

\* re.match(r'^[-:\s|]+$', para) or '|' in para[:10]
IsTableRemnant(para) ==
    \/ Len(para) > 0 /\ \A i \in 1..Len(para) : InClass("sep", para[i])
    \/ HasChar(Slice(para, 0, 10), "|")

\* one P for each paragraph kept
ParagraphSeg(paras) == [i \in 1..Len(paras) |-> Seg("P", paras[i], <<>>, <<>>, <<>>)]

ParagraphSegs(summary_text) ==
    ParagraphSeg(SelectSeq(Paragraphs(summary_text), LAMBDA p : ~IsTableRemnant(p)))

\* tables_to_display
TablesToDisplay(tables) ==
    IF Len(tables) > 1 THEN << tables[Len(tables)] >> ELSE tables

\* df[col] for a label that occurs more than once is a frame, not a column
IsDuplicateLabel(table, c) == \E d \in 1..Len(table.header) : d # c /\ table.header[d] = table.header[c]

\* (df[col] != '').any() for a label that occurs once
ColumnHasValue(table, c) == \E r \in 1..Len(table.rows) : table.rows[r][c] # <<>>

RECURSIVE HasDataFrom(_, _)
\* the has_data loop from column c on: "raise" when the truth value of a
\* frame is asked for, else "yes" or "no"
HasDataFrom(table, c) ==
    IF c > Len(table.header) THEN "no"
    ELSE IF IsDuplicateLabel(table, c) THEN "raise"
    ELSE IF ColumnHasValue(table, c) THEN "yes"
    ELSE HasDataFrom(table, c + 1)

HasData(table) == HasDataFrom(table, 1)

\* cell_val, or the dash shown for an empty one
DashIfEmpty(cell_val) ==
    IF cell_val \in {<<>>, << "n", "a", "n" >>, << "N", "o", "n", "e" >>}
    THEN << EmDash >> ELSE cell_val

\* the text of one displayed cell
CellText(val) == DashIfEmpty(Strip(val))

TableSeg(table) ==
    Seg("Table", <<>>, <<>>, table.header,
        [r \in 1..Len(table.rows) |->
            [c \in 1..Len(table.rows[r]) |-> CellText(table.rows[r][c])]])

\* one pass of the table loop, given what the has_data loop found
TableShown(table, d) ==
    IF table.rows = <<>> \/ table.header = <<>> THEN [raised |-> FALSE, segs |-> <<>>]
    ELSE IF d = "raise" THEN [raised |-> TRUE, segs |-> <<>>]
    ELSE IF d = "no" THEN [raised |-> FALSE, segs |-> <<>>]
    ELSE [raised |-> FALSE, segs |-> << TableSeg(table) >>]

\* the loop over tables_to_display, which holds one table at most
ShownSegs(shown) ==
    IF shown = <<>> THEN [raised |-> FALSE, segs |-> <<>>]
    ELSE TableShown(shown[1], HasData(shown[1]))

\* the table loop: the segments added and whether the loop raised
TableSegs(tables) == ShownSegs(TablesToDisplay(tables))

\* the threshold below which the fallback shows the fixed notice
MinContentLen == 5

\* the length below which a "**" header gets the acknowledgement note
MaxHeaderLen == 50

\* the fallback with no test for a bare header
FallbackNoAck(content_clean) ==
    IF content_clean = <<>> \/ Len(content_clean) < MinContentLen
    THEN << Seg("Notice", <<>>, <<>>, <<>>, <<>>) >>
    ELSE << Seg("Span", content_clean, <<>>, <<>>, <<>>) >>

\* the fallback for an empty component list
Fallback(content_clean) ==
    IF content_clean = <<>> \/ Len(content_clean) < MinContentLen
    THEN << Seg("Notice", <<>>, <<>>, <<>>, <<>>) >>
    ELSE IF StartsAt(content_clean, << "*", "*" >>, 1) /\ Len(content_clean) < MaxHeaderLen
    THEN << Seg("Ack", content_clean, <<>>, <<>>, <<>>) >>
    ELSE << Seg("Span", content_clean, <<>>, <<>>, <<>>) >>

\* the list returned: the components, or the fallback when there is none
Components(components, content_clean) ==
    IF components = <<>> THEN Fallback(content_clean) ELSE components

\* the outcome once the table loop is over: it raised, or the list is returned
Finish(front, tabs, content_clean) ==
    IF tabs.raised THEN [raised |-> TRUE, segs |-> <<>>]
    ELSE [raised |-> FALSE, segs |-> Components(front \o tabs.segs, content_clean)]

\* the components in the order they are appended: badges, paragraphs, table
FormatParsed(agent_names, content_clean, parsed) ==
    Finish(BadgeSegs(agent_names) \o ParagraphSegs(NormalizeSummary(parsed.summary)),
           TableSegs(parsed.tables), content_clean)

\* the formatter from the parse of the cleaned content on
FormatClean(agent_names, content_clean) ==
    FormatParsed(agent_names, content_clean, parse_markdown_table(content_clean))

\* format_response_content: [raised, segs]
format_response_content(content) == FormatClean(AgentNames(content), ContentClean(content))

-----------------------------------------------------------------------------
(* get_agent_response: the reply object and the strings it returns          *)
(*                                                                         *)
(* An attribute of a reply object is a record [tag, val]: tag "absent"     *)
(* (no such attribute), "null" (the attribute is None) or "val".  A reply  *)
(* is [output], an output element [content], a content element [text].     *)
(* An exception is [type, msg]; msg is what str(e) gives.                  *)

\* the string returned for a blank reply (line 241)
EmptyNotice ==
    << "U+26A0", "U+FE0F", " ", "I", " ", "r", "e", "c", "e", "i", "v", "e",
       "d", " ", "y", "o", "u", "r", " ", "m", "e", "s", "s", "a", "g", "e",
       " ", "b", "u", "t", " ", "g", "o", "t", " ", "a", "n", " ", "e", "m",
       "p", "t", "y", " ", "r", "e", "s", "p", "o", "n", "s", "e", " ", "f",
       "r", "o", "m", " ", "t", "h", "e", " ", "a", "g", "e", "n", "t", ".",
       " ", "T", "h", "i", "s", " ", "c", "o", "u", "l", "d", " ", "m", "e",
       "a", "n", ":", "\n", "\n", "1", ".", " ", "T", "h", "e", " ", "a",
       "g", "e", "n", "t", " ", "e", "n", "d", "p", "o", "i", "n", "t", " ",
       "i", "s", " ", "r", "u", "n", "n", "i", "n", "g", " ", "b", "u", "t",
       " ", "n", "o", "t", " ", "p", "r", "o", "c", "e", "s", "s", "i", "n",
       "g", " ", "q", "u", "e", "r", "i", "e", "s", " ", "c", "o", "r", "r",
       "e", "c", "t", "l", "y", "\n", "2", ".", " ", "T", "h", "e", "r", "e",
       " ", "m", "i", "g", "h", "t", " ", "b", "e", " ", "a", "n", " ", "i",
       "s", "s", "u", "e", " ", "w", "i", "t", "h", " ", "t", "h", "e", " ",
       "d", "a", "t", "a", " ", "s", "o", "u", "r", "c", "e", "s", " ", "o",
       "r", " ", "p", "e", "r", "m", "i", "s", "s", "i", "o", "n", "s", "\n",
       "3", ".", " ", "T", "h", "e", " ", "q", "u", "e", "r", "y", " ", "m",
       "i", "g", "h", "t", " ", "n", "e", "e", "d", " ", "t", "o", " ", "b",
       "e", " ", "r", "e", "p", "h", "r", "a", "s", "e", "d", "\n", "\n",
       "P", "l", "e", "a", "s", "e", " ", "t", "r", "y", " ", "r", "e", "p",
       "h", "r", "a", "s", "i", "n", "g", " ", "y", "o", "u", "r", " ", "q",
       "u", "e", "s", "t", "i", "o", "n", " ", "o", "r", " ", "c", "h", "e",
       "c", "k", " ", "t", "h", "e", " ", "a", "g", "e", "n", "t", " ", "e",
       "n", "d", "p", "o", "i", "n", "t", " ", "l", "o", "g", "s", "." >>

\* the message of get_client's ValueError (lines 115-116)
AuthNotConfigured ==
    << "A", "u", "t", "h", "e", "n", "t", "i", "c", "a", "t", "i", "o", "n",
       " ", "n", "o", "t", " ", "c", "o", "n", "f", "i", "g", "u", "r", "e",
       "d", ".", " ", "F", "o", "r", " ", "D", "a", "t", "a", "b", "r", "i",
       "c", "k", "s", " ", "A", "p", "p", "s", ",", " ", "e", "n", "s", "u",
       "r", "e", " ", "a", " ", "S", "e", "r", "v", "i", "c", "e", " ", "P",
       "r", "i", "n", "c", "i", "p", "a", "l", " ", "i", "s", " ", "c", "o",
       "n", "f", "i", "g", "u", "r", "e", "d", ".", " ", "F", "o", "r", " ",
       "l", "o", "c", "a", "l", " ", "d", "e", "v", "e", "l", "o", "p", "m",
       "e", "n", "t", ",", " ", "s", "e", "t", " ", "D", "A", "T", "A", "B",
       "R", "I", "C", "K", "S", "_", "T", "O", "K", "E", "N", " ", "e", "n",
       "v", "i", "r", "o", "n", "m", "e", "n", "t", " ", "v", "a", "r", "i",
       "a", "b", "l", "e", "." >>

\* line 247
ConfigPrefix ==
    << "C", "o", "n", "f", "i", "g", "u", "r", "a", "t", "i", "o", "n", " ",
       "E", "r", "r", "o", "r", ":", " " >>

\* line 250
FormatPrefix ==
    << "R", "e", "s", "p", "o", "n", "s", "e", " ", "F", "o", "r", "m", "a",
       "t", " ", "E", "r", "r", "o", "r", ":", " " >>

\* line 250
FormatSuffix ==
    << ".", " ", "T", "h", "e", " ", "a", "g", "e", "n", "t", " ", "r", "e",
       "s", "p", "o", "n", "s", "e", " ", "f", "o", "r", "m", "a", "t", " ",
       "m", "a", "y", " ", "h", "a", "v", "e", " ", "c", "h", "a", "n", "g",
       "e", "d", "." >>

\* line 253
ClientPrefix ==
    << "C", "l", "i", "e", "n", "t", " ", "E", "r", "r", "o", "r", ":", " " >>

\* line 253
ClientSuffix ==
    << ".", " ", "P", "l", "e", "a", "s", "e", " ", "c", "h", "e", "c", "k",
       " ", "t", "h", "e", " ", "O", "p", "e", "n", "A", "I", " ", "S", "D",
       "K", " ", "v", "e", "r", "s", "i", "o", "n", "." >>

\* lines 264-271, up to the technical details
PermissionText ==
    << "U+26A0", "U+FE0F", " ", "P", "e", "r", "m", "i", "s", "s", "i", "o",
       "n", " ", "E", "r", "r", "o", "r", ":", " ", "Y", "o", "u", "r", " ",
       "a", "c", "c", "o", "u", "n", "t", " ", "d", "o", "e", "s", "n", "'",
       "t", " ", "h", "a", "v", "e", " ", "a", "c", "c", "e", "s", "s", " ",
       "t", "o", " ", "t", "h", "e", " ", "a", "g", "e", "n", "t", " ", "e",
       "n", "d", "p", "o", "i", "n", "t", ".", "\n", "\n", "T", "o", " ",
       "f", "i", "x", " ", "t", "h", "i", "s", ":", "\n", "1", ".", " ", "G",
       "o", " ", "t", "o", " ", "y", "o", "u", "r", " ", "D", "a", "t", "a",
       "b", "r", "i", "c", "k", "s", " ", "w", "o", "r", "k", "s", "p", "a",
       "c", "e", "\n", "2", ".", " ", "N", "a", "v", "i", "g", "a", "t", "e",
       " ", "t", "o", " ", "S", "e", "r", "v", "i", "n", "g", " ", "E", "n",
       "d", "p", "o", "i", "n", "t", "s", "\n", "3", ".", " ", "F", "i", "n",
       "d", " ", "t", "h", "e", " ", "e", "n", "d", "p", "o", "i", "n", "t",
       ":", " ", "a", "g", "e", "n", "t", "s", "_", "a", "k", "a", "s", "h",
       "_", "s", "_", "d", "e", "m", "o", "-", "t", "a", "l", "e", "n", "t",
       "-", "t", "a", "l", "e", "n", "t", "_", "a", "g", "e", "n", "t", "_",
       "v", "1", "\n", "4", ".", " ", "G", "r", "a", "n", "t", " ", "'", "C",
       "a", "n", " ", "Q", "u", "e", "r", "y", "'", " ", "p", "e", "r", "m",
       "i", "s", "s", "i", "o", "n", " ", "t", "o", " ", "y", "o", "u", "r",
       " ", "u", "s", "e", "r", " ", "o", "r", " ", "g", "r", "o", "u", "p",
       "\n", "\n", "T", "e", "c", "h", "n", "i", "c", "a", "l", " ", "d",
       "e", "t", "a", "i", "l", "s", ":", " " >>

\* lines 274-280
NotFoundText ==
    << "U+26A0", "U+FE0F", " ", "E", "n", "d", "p", "o", "i", "n", "t", " ",
       "N", "o", "t", " ", "F", "o", "u", "n", "d", ":", " ", "T", "h", "e",
       " ", "a", "g", "e", "n", "t", " ", "e", "n", "d", "p", "o", "i", "n",
       "t", " ", "'", "a", "g", "e", "n", "t", "s", "_", "a", "k", "a", "s",
       "h", "_", "s", "_", "d", "e", "m", "o", "-", "t", "a", "l", "e", "n",
       "t", "-", "t", "a", "l", "e", "n", "t", "_", "a", "g", "e", "n", "t",
       "_", "v", "1", "'", " ", "w", "a", "s", " ", "n", "o", "t", " ", "f",
       "o", "u", "n", "d", ".", "\n", "\n", "P", "l", "e", "a", "s", "e",
       " ", "v", "e", "r", "i", "f", "y", ":", "\n", "1", ".", " ", "T", "h",
       "e", " ", "m", "o", "d", "e", "l", " ", "n", "a", "m", "e", " ", "i",
       "s", " ", "c", "o", "r", "r", "e", "c", "t", "\n", "2", ".", " ", "T",
       "h", "e", " ", "e", "n", "d", "p", "o", "i", "n", "t", " ", "e", "x",
       "i", "s", "t", "s", " ", "i", "n", " ", "y", "o", "u", "r", " ", "w",
       "o", "r", "k", "s", "p", "a", "c", "e", "\n", "3", ".", " ", "T", "h",
       "e", " ", "e", "n", "d", "p", "o", "i", "n", "t", " ", "U", "R", "L",
       " ", "i", "s", " ", "c", "o", "r", "r", "e", "c", "t" >>

\* lines 282-285
AuthErrorText ==
    << "U+26A0", "U+FE0F", " ", "A", "u", "t", "h", "e", "n", "t", "i", "c",
       "a", "t", "i", "o", "n", " ", "E", "r", "r", "o", "r", ":", " ", "T",
       "h", "e", " ", "a", "u", "t", "h", "e", "n", "t", "i", "c", "a", "t",
       "i", "o", "n", " ", "t", "o", "k", "e", "n", " ", "i", "s", " ", "i",
       "n", "v", "a", "l", "i", "d", " ", "o", "r", " ", "e", "x", "p", "i",
       "r", "e", "d", ".", "\n", "\n", "P", "l", "e", "a", "s", "e", " ",
       "c", "h", "e", "c", "k", " ", "i", "f", " ", "y", "o", "u", "r", " ",
       "D", "a", "t", "a", "b", "r", "i", "c", "k", "s", " ", "t", "o", "k",
       "e", "n", " ", "i", "s", " ", "s", "t", "i", "l", "l", " ", "v", "a",
       "l", "i", "d", "." >>

\* line 287
GenericPrefix ==
    << "E", "r", "r", "o", "r", ":", " " >>

\* str() of the AttributeError of response.output on a reply without output
NoOutputMsg ==
    << "'", "R", "e", "s", "p", "o", "n", "s", "e", "'", " ", "o", "b", "j",
       "e", "c", "t", " ", "h", "a", "s", " ", "n", "o", " ", "a", "t", "t",
       "r", "i", "b", "u", "t", "e", " ", "'", "o", "u", "t", "p", "u", "t",
       "'" >>

\* str() of the TypeError of iterating None
NotIterableMsg ==
    << "'", "N", "o", "n", "e", "T", "y", "p", "e", "'", " ", "o", "b", "j",
       "e", "c", "t", " ", "i", "s", " ", "n", "o", "t", " ", "i", "t", "e",
       "r", "a", "b", "l", "e" >>

Absent == [tag |-> "absent", val |-> <<>>]

Null == [tag |-> "null", val |-> <<>>]

Val(v) == [tag |-> "val", val |-> v]

NoExc == [type |-> "none", msg |-> <<>>]

Raise(type, msg) == [type |-> type, msg |-> msg]

\* the base class of each exception class that can reach the handlers
BaseOf(type) ==
    IF type \in {"ValueError", "AttributeError", "TypeError", "APIError"} THEN "Exception"
    ELSE "BaseException"

\* isinstance(e, class) for an exception of class type
IsInstance(type, class) == type = class \/ BaseOf(type) = class

\* ContentParts without the trimming of line 234: the fragment as read
ContentPartsVerbatim(content) ==
    LET text == IF content.text.tag = "val" THEN content.text.val ELSE <<>>
    IN IF text # <<>> /\ Strip(text) # <<>> THEN << text >> ELSE <<>>

\* lines 231-234: what one content element appends to response_parts
ContentParts(content) ==
    LET text == IF content.text.tag = "val" THEN content.text.val ELSE <<>>
    IN IF text # <<>> /\ Strip(text) # <<>> THEN << Strip(text) >> ELSE <<>>

\* lines 229-234: the inner loop over getattr(output, "content", [])
RECURSIVE ContentLoop(_, _)
ContentLoop(contents, i) ==
    IF i > Len(contents) THEN <<>>
    ELSE ContentParts(contents[i]) \o ContentLoop(contents, i + 1)

\* lines 227-234: the loop over response.output from element i on
RECURSIVE OutputLoop(_, _)
OutputLoop(outputs, i) ==
    IF i > Len(outputs) THEN [exc |-> NoExc, parts |-> <<>>]
    ELSE IF outputs[i].content.tag = "null"
    THEN [exc |-> Raise("TypeError", NotIterableMsg), parts |-> <<>>]
    ELSE LET here == IF outputs[i].content.tag = "absent" THEN <<>>
                     ELSE ContentLoop(outputs[i].content.val, 1)
             rest == OutputLoop(outputs, i + 1)
         IN [exc |-> rest.exc, parts |-> here \o rest.parts]

\* lines 226-234: response_parts, or the exception the traversal raises
ResponseParts(response) ==
    IF response.output.tag = "absent"
    THEN [exc |-> Raise("AttributeError", NoOutputMsg), parts |-> <<>>]
    ELSE IF response.output.tag = "null"
    THEN [exc |-> Raise("TypeError", NotIterableMsg), parts |-> <<>>]
    ELSE OutputLoop(response.output.val, 1)

\* ResponseText without the blank test of lines 240-241
ResponseTextUnchecked(response_parts) == Join(response_parts, << "\n" >>)

\* lines 236-243: the string returned once the traversal is over
ResponseText(response_parts) ==
    LET response_text == Join(response_parts, << "\n" >>)
    IN IF Strip(response_text) = <<>> THEN EmptyNotice ELSE response_text

\* the generic handler's message with the token test made first
GenericErrorAuthFirst(msg) ==
    LET error_msg == Lower(msg)
    IN IF \/ HasSub(error_msg, << "4", "0", "1" >>)
          \/ HasSub(error_msg, << "u", "n", "a", "u", "t", "h", "o", "r", "i", "z", "e", "d" >>)
       THEN AuthErrorText
       ELSE IF \/ HasSub(error_msg, << "i", "n", "v", "a", "l", "i", "d", " ", "s", "c", "o", "p", "e" >>)
               \/ HasSub(error_msg, << "4", "0", "3" >>)
               \/ HasSub(error_msg, << "f", "o", "r", "b", "i", "d", "d", "e", "n" >>)
       THEN PermissionText \o msg
       ELSE IF \/ HasSub(error_msg, << "4", "0", "4" >>)
               \/ HasSub(error_msg, << "n", "o", "t", " ", "f", "o", "u", "n", "d" >>)
       THEN NotFoundText
       ELSE GenericPrefix \o msg

\* lines 260-287: the generic handler's message
GenericError(msg) ==
    LET error_msg == Lower(msg)
    IN IF \/ HasSub(error_msg, << "i", "n", "v", "a", "l", "i", "d", " ", "s", "c", "o", "p", "e" >>)
          \/ HasSub(error_msg, << "4", "0", "3" >>)
          \/ HasSub(error_msg, << "f", "o", "r", "b", "i", "d", "d", "e", "n" >>)
       THEN PermissionText \o msg
       ELSE IF \/ HasSub(error_msg, << "4", "0", "4" >>)
               \/ HasSub(error_msg, << "n", "o", "t", " ", "f", "o", "u", "n", "d" >>)
       THEN NotFoundText
       ELSE IF \/ HasSub(error_msg, << "4", "0", "1" >>)
               \/ HasSub(error_msg, << "u", "n", "a", "u", "t", "h", "o", "r", "i", "z", "e", "d" >>)
       THEN AuthErrorText
       ELSE GenericPrefix \o msg

\* the outcome of a call: the string returned, the class of the handler that
\* produced it ("none" on the normal path), and whether an exception escaped
Returned(value, caught) == [raised |-> FALSE, value |-> value, caught |-> caught]

Escaped(e) == [raised |-> TRUE, value |-> <<>>, caught |-> "none"]

\* Handle without the last clause (except Exception, lines 254-287)
HandleNoGeneric(e) ==
    IF IsInstance(e.type, "ValueError")
    THEN Returned(ConfigPrefix \o e.msg, "ValueError")
    ELSE IF IsInstance(e.type, "AttributeError")
    THEN Returned(FormatPrefix \o e.msg \o FormatSuffix, "AttributeError")
    ELSE IF IsInstance(e.type, "TypeError")
    THEN Returned(ClientPrefix \o e.msg \o ClientSuffix, "TypeError")
    ELSE Escaped(e)

\* lines 245-287: the except clauses, tried in order
Handle(e) ==
    IF IsInstance(e.type, "ValueError")
    THEN Returned(ConfigPrefix \o e.msg, "ValueError")
    ELSE IF IsInstance(e.type, "AttributeError")
    THEN Returned(FormatPrefix \o e.msg \o FormatSuffix, "AttributeError")
    ELSE IF IsInstance(e.type, "TypeError")
    THEN Returned(ClientPrefix \o e.msg \o ClientSuffix, "TypeError")
    ELSE IF IsInstance(e.type, "Exception")
    THEN Returned(GenericError(e.msg), "Exception")
    ELSE Escaped(e)

\* lines 211-243: the exception the try block raises, or NoExc
TryBlock(env) ==
    IF env.client.type # "none" THEN env.client
    ELSE IF env.call.type # "none" THEN env.call
    ELSE ResponseParts(env.response).exc

\* get_agent_response, given what client acquisition and the endpoint call do
get_agent_response(env) ==
    LET e == TryBlock(env)
    IN IF e.type # "none" THEN Handle(e)
       ELSE Returned(ResponseText(ResponseParts(env.response).parts), "none")

-----------------------------------------------------------------------------
(* Runs of get_agent_response (specification SpecExtract)                   *)
(*                                                                         *)
(* xReply is what the run meets: the outcome of get_client, the outcome of *)
(* client.responses.create, and the reply object the endpoint hands back.  *)
(* The reply is built element by element, then get_agent_response runs:    *)
(* it calls get_client (line 212), which reads _cached_client and, finding *)
(* none, waits for the token and assigns the cache (xPc "client"); then it *)
(* waits for the endpoint (xPc "call") and goes to its end (xPc "done").   *)
(* The run starts in a fresh process or in one that has cached a client.   *)

\* the largest number of output and content elements of a reply
MaxReplySize == 5

\* text values a content element can carry
Fragments ==
    { <<>>, << " " >>, << "a" >>, << " ", "b", "\n" >>, EmptyNotice }

\* the text attribute of a content element
TextFields == {Absent, Null} \cup { Val(t) : t \in Fragments }

\* messages of exceptions raised by the endpoint call
CallMessages ==
    { << "4", "0", "3", " ", "F", "o", "r", "b", "i", "d", "d", "e", "n" >>,
      << "N", "o", "t", " ", "F", "o", "u", "n", "d" >>,
      << "4", "0", "1" >>,
      << "t", "i", "m", "e", "d", " ", "o", "u", "t" >>,
      << "4", "0", "1", " ", "o", "r", " ", "4", "0", "3" >>,
      << "4", "0", "4", " ", "U", "n", "a", "u", "t", "h", "o", "r", "i", "z", "e", "d" >>,
      << "I", "n", "v", "a", "l", "i", "d", " ", "S", "c", "o", "p", "e" >> }

\* what get_client does: returns a client, or raises (lines 114-117, 120-125)
ClientOutcomes ==
    { NoExc, Raise("ValueError", AuthNotConfigured),
      Raise("TypeError", << "p", "r", "o", "x", "i", "e", "s" >>) }

\* what client.responses.create does: returns, or raises (line 216)
CallOutcomes ==
    { NoExc } \cup
    { Raise(t, m) : t \in {"ValueError", "AttributeError", "TypeError", "APIError"},
                    m \in CallMessages }

Env(client, call, output) ==
    [client |-> client, call |-> call, response |-> [output |-> output]]

NoResult == [raised |-> FALSE, value |-> <<>>, caught |-> "pending"]

\* every variable of the other two runs at rest
FormatIdle ==
    fText = <<>> /\ fOut = [raised |-> FALSE, segs |-> <<>>] /\ fPc = [at |-> "idle", n |-> 0]

\* the record of one invocation of update_chat: what it received, whether it
\* called the endpoint and with which messages, and what it returned
Outputs(request, called, input, raised, history, chat_display) ==
    [trigger |-> request.trigger, message |-> request.message, received |-> request.history,
     called |-> called, input |-> input, raised |-> raised,
     history |-> history, display |-> chat_display]

\* what the browser sends with an event: the id of the component that
\* fired (button_id) and the two State values of lines 655-656.  stage is
\* where the invocation on it is: "sent" (not yet at line 108), "client"
\* (in get_client, past line 108) or "call" (waiting for the endpoint)
Request(trigger, message, history) ==
    [trigger |-> trigger, message |-> message, history |-> history, stage |-> "sent"]

\* no invocation yet
NoCall == Outputs(Request("idle", <<>>, <<>>), FALSE, <<>>, FALSE, <<>>, <<>>)

ChatIdle ==
    /\ store = <<>> /\ display = <<>> /\ inflight = <<>>
    /\ lastCall = NoCall /\ nSends = 0

ExtractIdle == xReply = <<>> /\ xResult = NoResult /\ xPc = "idle"

\* no token: os.environ.get gave None, or a call returned None
NoToken == [tag |-> "none", val |-> ""]

\* a token string (the empty string included)
Token(s) == [tag |-> "str", val |-> s]

\* an environment in which no source has a token
NoEnv ==
    [client_id |-> NoToken, client_secret |-> NoToken,
     exchange |-> [kind |-> "raise", token |-> NoToken],
     env_token |-> NoToken,
     secret |-> [kind |-> "raise", token |-> NoToken]]

\* no client: the None that _cached_client starts with
\* a client object: its identity (0 for no object), the arguments it was
\* constructed with (max_retries 0: not passed), and whether the user-token
\* branch constructed it
Client(id, api_key, max_retries, for_user) ==
    [id |-> id, api_key |-> api_key, max_retries |-> max_retries, for_user |-> for_user]

NoClient == Client(0, NoToken, 0, FALSE)

\* no call of get_client yet
NoGet ==
    [ended |-> FALSE, user_token |-> NoToken, before |-> NoClient, held |-> NoClient,
     after |-> NoClient, resolved |-> FALSE, raised |-> FALSE, client |-> NoClient]

RowIdle == rIn = [raw_cells |-> <<>>, num_cols |-> 0] /\ rOut = <<>> /\ rPc = "idle"

\* what a call of get_databricks_token gives: it raised, or the value returned
TokenOut(raised, token) == [raised |-> raised, token |-> token]

TokenIdle == tEnv = NoEnv /\ tOut = TokenOut(FALSE, NoToken) /\ tPc = "idle"

ClientIdle ==
    /\ cached = NoClient /\ made = <<>> /\ gLast = NoGet /\ nCalls = 0
    /\ waiting = <<>> /\ served = {}

\* a row of the attrition table before attrition_reason is added: the script
\* that builds it, the columns the reason is computed from (the ratio in
\* thousandths, the gap and the hours in tenths, the years in hundredths) and
\* the draws of rand(): the part of the stress level drawn (tenths), the
\* draws compared with 0.35 and 0.50 (hundredths)
Row(script, attrition_flag, below_market, comp_ratio, sal_gap, work_hours_per_week, stress_draw, total_promotions, tenure_years, manager_draw, personal_draw) ==
    [script |-> script, attrition_flag |-> attrition_flag, below_market |-> below_market,
     comp_ratio |-> comp_ratio, sal_gap |-> sal_gap,
     work_hours_per_week |-> work_hours_per_week, stress_draw |-> stress_draw,
     total_promotions |-> total_promotions, tenure_years |-> tenure_years,
     manager_draw |-> manager_draw, personal_draw |-> personal_draw]

NoRow == Row("none", 0, 0, 0, 0, 0, 0, 0, 0, 0, 0)

\* lit(None)
NoReason == "NULL"

AttrIdle == aRow = NoRow /\ aOut = NoReason /\ aPc = "idle"

-----------------------------------------------------------------------------
(* get_databricks_token (lines 29-83)                                       *)
(*                                                                         *)
(* A value read from the environment, from the token endpoint or from the  *)
(* secret store is NoToken (None, nothing there) or Token(s) for a string  *)
(* s.  The surroundings of a call are a record: the two Service Principal  *)
(* variables, what the OAuth exchange does (the request raises, the status *)
(* check raises, or a JSON body comes back with or without access_token),  *)
(* DATABRICKS_TOKEN, and what the secret store does (raises, or a value).  *)

\* the truth value of a token: None and the empty string are false
Truthy(t) == t.tag = "str" /\ t.val # ""

\* line 40: both Service Principal variables are set
HasServicePrincipal(env) == Truthy(env.client_id) /\ Truthy(env.client_secret)

\* the exchange with no try around it: a failure is raised to the caller
ExchangeUnguarded(env) ==
    IF env.exchange.kind # "json" THEN TokenOut(TRUE, NoToken)
    ELSE TokenOut(FALSE, IF Truthy(env.exchange.token) THEN env.exchange.token ELSE NoToken)

\* lines 49-65: the exchange; a failure is caught, a body without a token
\* gives nothing
Exchange(env) ==
    TokenOut(FALSE, IF env.exchange.kind = "json" /\ Truthy(env.exchange.token)
                    THEN env.exchange.token ELSE NoToken)

\* lines 74-81: the secret; a failure is caught
SecretToken(env) ==
    IF env.secret.kind = "value" /\ Truthy(env.secret.token) THEN env.secret.token
    ELSE NoToken

\* lines 68-83: the sources after the Service Principal
AfterServicePrincipal(env) ==
    IF Truthy(env.env_token) THEN TokenOut(FALSE, env.env_token)
    ELSE TokenOut(FALSE, SecretToken(env))

\* lines 40-83, given the outcome of the exchange
TokenFrom(env, exchanged) ==
    IF exchanged.raised THEN exchanged
    ELSE IF Truthy(exchanged.token) THEN exchanged
    ELSE AfterServicePrincipal(env)

get_databricks_token(env) ==
    IF HasServicePrincipal(env) THEN TokenFrom(env, Exchange(env))
    ELSE AfterServicePrincipal(env)

-----------------------------------------------------------------------------
(* get_client (lines 86-130)                                                *)
(*                                                                         *)
(* cached is _cached_client (NoClient for None).  A call gives a record:   *)
(* whether it raised, the client returned, the value of _cached_client     *)
(* after it, whether a client was constructed, and whether                 *)
(* get_databricks_token was called.                                         *)

\* max_retries of the app client (line 123)
AppRetries == 2

GetOutcome(raised, client, cache, created, resolved) ==
    [raised |-> raised, client |-> client, cache |-> cache, created |-> created,
     resolved |-> resolved]

\* the user-token branch with the new client stored in the cache
UserClientCached(user_token, cache, id) ==
    GetOutcome(FALSE, Client(id, user_token, 0, TRUE), Client(id, user_token, 0, TRUE),
               TRUE, FALSE)

\* lines 101-105: a new client for the user's token, the cache left alone
UserClient(user_token, cache, id) ==
    GetOutcome(FALSE, Client(id, user_token, 0, TRUE), cache, TRUE, FALSE)

\* the app client built and returned without the assignment of line 128
AppClientUncached(token, cache, id) ==
    IF token.raised \/ ~Truthy(token.token)
    THEN GetOutcome(TRUE, NoClient, cache, FALSE, TRUE)
    ELSE GetOutcome(FALSE, Client(id, token.token, AppRetries, FALSE), cache, TRUE, TRUE)

\* lines 111-130 with _cached_client = cache when they are reached: the app
\* client from the token found, stored in the cache, or ValueError and the
\* cache as it is
AppClient(token, cache, id) ==
    IF token.raised \/ ~Truthy(token.token)
    THEN GetOutcome(TRUE, NoClient, cache, FALSE, TRUE)
    ELSE GetOutcome(FALSE, Client(id, token.token, AppRetries, FALSE),
                    Client(id, token.token, AppRetries, FALSE), TRUE, TRUE)

\* get_client(user_token) with _cached_client = cache in environment env,
\* when no other call runs between its first and its last line; id is the
\* identity a newly constructed client gets
get_client(user_token, cache, env, id) ==
    IF Truthy(user_token) THEN UserClient(user_token, cache, id)
    ELSE IF cache # NoClient THEN GetOutcome(FALSE, cache, cache, FALSE, FALSE)
    ELSE AppClient(get_databricks_token(env), cache, id)

\* the record of a call that has returned
Got(user_token, before, held, outcome) ==
    [ended |-> TRUE, user_token |-> user_token, before |-> before, held |-> held,
     after |-> outcome.cache, resolved |-> outcome.resolved, raised |-> outcome.raised,
     client |-> outcome.client]

\* a call that has read _cached_client at line 108 and found None
Waiting(user_token, before) == [user_token |-> user_token, before |-> before]

\* the state after a call has ended with the given outcome
AfterGet(user_token, before, outcome) ==
    /\ cached' = outcome.cache
    /\ made' = IF outcome.created THEN Append(made, outcome.client) ELSE made
    /\ gLast' = Got(user_token, before, cached, outcome)
    /\ served' = IF Truthy(user_token) \/ outcome.raised THEN served
                 ELSE served \cup { outcome.client }

\* the largest number of calls of get_client made directly, and of calls
\* waiting between line 108 and line 128 at a time
MaxCalls == 3

\* lines 98-109: a call starts; with a user token or a cached client it
\* returns, otherwise it goes on to get_databricks_token
EnterClient(user_token) ==
    IF Truthy(user_token) \/ cached # NoClient
    THEN /\ AfterGet(user_token, cached,
                     get_client(user_token, cached, NoEnv, Len(made) + 1))
         /\ UNCHANGED waiting
    ELSE /\ waiting' = Append(waiting, Waiting(user_token, cached))
         /\ UNCHANGED <<cached, made, gLast, served>>

\* lines 111-130: the i-th waiting call comes to its end with the outcome
LeaveClient(i, outcome) ==
    /\ AfterGet(waiting[i].user_token, waiting[i].before, outcome)
    /\ waiting' = SubSeq(waiting, 1, i - 1) \o SubSeq(waiting, i + 1, Len(waiting))

\* the environment of the deployed app: DATABRICKS_TOKEN is set
AppEnv == [NoEnv EXCEPT !.env_token = Token("pat")]

\* lines 111-130 for a call made by get_agent_response (line 212): the
\* token is found and the client built and cached, or, as the run has it,
\* no token is found (line 114) or the constructor raises (line 120)
ClientOutcome(client, cache, id) ==
    IF client = NoExc THEN AppClient(get_databricks_token(AppEnv), cache, id)
    ELSE GetOutcome(TRUE, NoClient, cache, FALSE, TRUE)

\* a process in which an earlier call has built and cached the app client
ClientCached ==
    LET outcome == AppClient(get_databricks_token(AppEnv), NoClient, 1)
    IN /\ cached = outcome.client /\ made = << outcome.client >>
       /\ gLast = Got(NoToken, NoClient, NoClient, outcome)
       /\ nCalls = 0 /\ waiting = <<>> /\ served = { outcome.client }

-----------------------------------------------------------------------------
(* Runs of get_agent_response: the initial state and the steps             *)

InitExtract ==
    /\ xPc = "input"
    /\ xResult = NoResult
    /\ \/ \E c \in ClientOutcomes \ {NoExc} : xReply = Env(c, NoExc, Val(<<>>))
       \/ \E c \in CallOutcomes \ {NoExc} : xReply = Env(NoExc, c, Val(<<>>))
       \/ \E o \in {Absent, Null, Val(<<>>)} : xReply = Env(NoExc, NoExc, o)
    /\ \/ ClientIdle
       \/ ClientCached /\ xReply.client = NoExc
    /\ FormatIdle /\ ChatIdle /\ RowIdle /\ TokenIdle /\ AttrIdle

\* the number of output and content elements of a reply
RECURSIVE ReplySize(_)
ReplySize(outputs) ==
    IF outputs = <<>> THEN 0
    ELSE 1 + Len(Head(outputs).content.val) + ReplySize(Tail(outputs))

\* the endpoint returned a reply with an output sequence, still being built
ReplyOpen ==
    /\ xPc = "input"
    /\ xReply.client = NoExc /\ xReply.call = NoExc
    /\ xReply.response.output.tag = "val"
    /\ ReplySize(xReply.response.output.val) < MaxReplySize

\* the reply gets one more output element
AddOutput(content) ==
    /\ ReplyOpen
    /\ xReply' = [xReply EXCEPT !.response.output.val = Append(@, [content |-> content])]
    /\ UNCHANGED <<xResult, xPc, fText, fOut, fPc, store, display, inflight, lastCall, nSends,
                 rowVars, tokenVars, clientVars, attrVars>>

\* the last output element gets one more content element
AddContent(text) ==
    /\ ReplyOpen
    /\ LET outputs == xReply.response.output.val
           n == Len(outputs)
       IN /\ n > 0
          /\ outputs[n].content.tag = "val"
          /\ xReply' = [xReply EXCEPT !.response.output.val[n].content.val =
                                          Append(@, [text |-> text])]
    /\ UNCHANGED <<xResult, xPc, fText, fOut, fPc, store, display, inflight, lastCall, nSends,
                 rowVars, tokenVars, clientVars, attrVars>>

\* get_agent_response starts on what was set up and calls get_client (line
\* 212), which returns the cached client or goes on to get_databricks_token
ExtractEnter ==
    /\ xPc = "input"
    /\ EnterClient(NoToken)
    /\ xPc' = IF cached # NoClient THEN "call" ELSE "client"
    /\ UNCHANGED <<xReply, xResult, nCalls, fText, fOut, fPc, store, display, inflight,
                   lastCall, nSends, rowVars, tokenVars, attrVars>>

\* get_client comes back from lines 111-130: with the client, which is now
\* cached, or with an exception, which ends the run in an except clause
ExtractClient ==
    /\ xPc = "client" /\ waiting # <<>>
    /\ LET outcome == ClientOutcome(xReply.client, cached, Len(made) + 1)
       IN /\ LeaveClient(1, outcome)
          /\ IF outcome.raised
             THEN xResult' = get_agent_response(xReply) /\ xPc' = "done"
             ELSE xPc' = "call" /\ UNCHANGED xResult
    /\ UNCHANGED <<xReply, nCalls, fText, fOut, fPc, store, display, inflight,
                   lastCall, nSends, rowVars, tokenVars, attrVars>>

\* client.responses.create comes back (line 215) and the run goes to its end
ExtractRun ==
    /\ xPc = "call"
    /\ xResult' = get_agent_response([xReply EXCEPT !.client = NoExc])
    /\ xPc' = "done"
    /\ UNCHANGED <<xReply, fText, fOut, fPc, store, display, inflight, lastCall, nSends,
                 rowVars, tokenVars, clientVars, attrVars>>

NextExtract ==
    \/ \E content \in {Absent, Null, Val(<<>>)} : AddOutput(content)
    \/ \E text \in TextFields : AddContent(text)
    \/ ExtractEnter
    \/ ExtractClient
    \/ ExtractRun

SpecExtract == InitExtract /\ [][NextExtract]_vars

-----------------------------------------------------------------------------
(* Properties of get_agent_response (C1 - C4), checked under SpecExtract    *)

\* the run is over and both get_client and the endpoint call returned
CallReturned == xPc = "done" /\ xReply.client = NoExc /\ xReply.call = NoExc

\* the reply has an output sequence
HasOutputs == CallReturned /\ xReply.response.output.tag = "val"

\* the text strings of a reply in traversal order; an output without a
\* content sequence and a content element without a text string give none
RECURSIVE TextsOf(_)
TextsOf(outputs) ==
    IF outputs = <<>> THEN <<>>
    ELSE LET contents == Head(outputs).content.val
             present == SelectSeq(contents, LAMBDA c : c.text.tag = "val")
         IN [i \in 1..Len(present) |-> present[i].text.val] \o TextsOf(Tail(outputs))

NonBlank(texts) == SelectSeq(texts, LAMBDA t : ~IsBlank(t))

Trimmed(texts) == [i \in 1..Len(texts) |-> Strip(texts[i])]

NewLine == << "\n" >>

\* every output holds a content sequence, every content element a text string
C1_Covered ==
    /\ HasOutputs
    /\ \A i \in 1..Len(xReply.response.output.val) :
          LET o == xReply.response.output.val[i]
          IN /\ o.content.tag = "val"
             /\ \A j \in 1..Len(o.content.val) : o.content.val[j].text.tag = "val"

\* C1 (as amended): for every reply whose outputs each hold a content
\* sequence and whose content elements each have a text string,
\* get_agent_response returns the newline-join, in traversal order, of the
\* trimmed text fields that are not blank, and the empty-reply notice when
\* every text field is blank.
C1_JoinOfTrimmed ==
    C1_Covered =>
        LET kept == Trimmed(NonBlank(TextsOf(xReply.response.output.val)))
        IN xResult = Returned(IF kept = <<>> THEN EmptyNotice ELSE Join(kept, NewLine), "none")

\* two outputs carrying "a", a blank and " b\n" were joined to "a\nb"
C1_Witness ==
    /\ C1_Covered
    /\ Len(xReply.response.output.val) = 2
    /\ TextsOf(xReply.response.output.val) = << << "a" >>, << " " >>, << " ", "b", "\n" >> >>
    /\ xResult.value = << "a", "\n", "b" >>

\* C1 as stated: the result is exactly the newline-join of the text fields
\* themselves, blank ones dropped.
C1_JoinOfFields ==
    C1_Covered =>
        xResult.value = Join(NonBlank(TextsOf(xReply.response.output.val)), NewLine)

\* C2: whatever the reply lacks (output, content, text) and whether client
\* acquisition or the endpoint call fails, get_agent_response returns a
\* string; no exception reaches its caller.
C2_AlwaysReturns == xPc = "done" => ~xResult.raised /\ xResult.value # <<>>

\* a reply without output came back as the response-format diagnostic
C2_Witness ==
    /\ CallReturned
    /\ xReply.response.output.tag = "absent"
    /\ xResult.caught = "AttributeError"
    /\ StartsAt(xResult.value, FormatPrefix, 1)

\* C3 as stated: an output whose content is absent or null and a content
\* element whose text is absent or null contribute nothing, and the other
\* elements' text is extracted as usual.
C3_MissingSkipped ==
    HasOutputs =>
        LET kept == Trimmed(NonBlank(TextsOf(xReply.response.output.val)))
        IN xResult = Returned(IF kept = <<>> THEN EmptyNotice ELSE Join(kept, NewLine), "none")

\* the reply was traversed to its end and what it joined is blank
C4_Blank ==
    /\ HasOutputs
    /\ TryBlock(xReply) = NoExc
    /\ NonBlank(TextsOf(xReply.response.output.val)) = <<>>

\* C4: a reply whose joined text is blank yields the empty-reply outcome
\* with no exception raised or caught, and that outcome is told apart from
\* every successful non-blank reply and from every error diagnostic: only a
\* blank reply yields it.
C4_Distinguishable ==
    /\ C4_Blank => xResult = Returned(EmptyNotice, "none")
    /\ (xPc = "done" /\ xResult.value = EmptyNotice) =>
           xResult.caught = "none" /\ C4_Blank

-----------------------------------------------------------------------------
(* Runs of format_response_content (specification SpecFormat)               *)
(*                                                                         *)
(* The content is put together from pieces (lines and blocks of lines),    *)
(* then format_response_content runs on it.                                 *)

\* the largest number of pieces of a content
MaxPieces == 3

\* a line of prose
PieceText ==
    << "x", " ", "y", " ", "z", " ", "w", "\n" >>

\* a pipe table: header A, B, separator, one row
PiecePipe ==
    << "|", "A", "|", "B", "|", "\n", "|", "-", "|", "-", "|", "\n", "|",
       "1", "|", "2", "|", "\n" >>

\* a further pipe row
PieceRow ==
    << "|", "3", "|", "4", "|", "\n" >>

\* a pipe row with no newline after it
PieceRowEnd ==
    << "|", "5", "|", "6", "|" >>

\* a whitespace table: header a, b, dashes, one row
PieceTab ==
    << "a", "\t", "b", "\n", "-", " ", "-", "\n", "1", "\t", "2", "\n" >>

\* an empty line
PieceBlank ==
    << "\n" >>

\* a pipe header H, K and its separator, no row yet
PieceHeadSep ==
    << "|", "H", "|", "K", "|", "\n", "|", "-", "|", "-", "|", "\n" >>

\* a pipe row of one cell
PieceShortRow ==
    << "|", "9", "|", "\n" >>

\* a pipe row of three cells, the first one numeric
PieceLongRow ==
    << "|", "7", "|", "8", "|", "9", "|", "\n" >>

\* a tab row of three cells
PieceTabLong ==
    << "1", "\t", "2", "\t", "3", "\n" >>

\* a pipe header that repeats the label D, and its separator
PieceDupSep ==
    << "|", "D", "|", "D", "|", "\n", "|", "-", "|", "-", "|", "\n" >>

Pieces ==
    { PieceText, PiecePipe, PieceRow, PieceRowEnd, PieceTab, PieceBlank, PieceHeadSep }

\* the pieces of contents with ragged rows and repeated labels
RaggedPieces ==
    { PieceText, PiecePipe, PieceRow, PieceTab, PieceShortRow, PieceLongRow,
      PieceTabLong, PieceDupSep }

Building(n) == [at |-> "build", n |-> n]

Done(n) == [at |-> "done", n |-> n]

NoOutcome == [raised |-> FALSE, segs |-> <<>>]

InitFormat ==
    /\ fText = <<>> /\ fOut = NoOutcome /\ fPc = Building(0)
    /\ ExtractIdle /\ ChatIdle /\ RowIdle /\ TokenIdle /\ ClientIdle /\ AttrIdle

\* the content gets one more piece
AddPiece(piece) ==
    /\ fPc.at = "build" /\ fPc.n < MaxPieces
    /\ fText' = fText \o piece
    /\ fPc' = Building(fPc.n + 1)
    /\ UNCHANGED <<fOut, xReply, xResult, xPc, store, display, inflight, lastCall, nSends,
                 rowVars, tokenVars, clientVars, attrVars>>

\* format_response_content runs on the content
FormatRun ==
    /\ fPc.at = "build"
    /\ fOut' = format_response_content(fText)
    /\ fPc' = Done(fPc.n)
    /\ UNCHANGED <<fText, xReply, xResult, xPc, store, display, inflight, lastCall, nSends,
                 rowVars, tokenVars, clientVars, attrVars>>

NextFormat ==
    \/ \E piece \in Pieces : AddPiece(piece)
    \/ FormatRun

SpecFormat == InitFormat /\ [][NextFormat]_vars

\* the same run over contents with ragged rows and repeated labels
NextRagged ==
    \/ \E piece \in RaggedPieces : AddPiece(piece)
    \/ FormatRun

SpecRagged == InitFormat /\ [][NextRagged]_vars

-----------------------------------------------------------------------------
(* The table shown (C9, C10), under SpecFormat                              *)

\* the Table segments among the components
TableSegsOf(segs) == SelectSeq(segs, LAMBDA s : s.kind = "Table")

\* the tables extracted from the content formatted
C9_Tables == parse_markdown_table(ContentClean(fText)).tables

\* of several tables, the one that starts last in the text
C9_LastInSource ==
    C9_Tables[CHOOSE i \in 1..Len(C9_Tables) :
                  \A j \in 1..Len(C9_Tables) : C9_Tables[j].start <= C9_Tables[i].start]

\* C9: when more than one table is extracted from the content, the output
\* holds exactly one Table segment and it shows the table that comes last
\* in the text, whatever the kinds of the tables.
C9_LastTableShown ==
    (fPc.at = "done" /\ Len(C9_Tables) > 1) =>
        /\ ~fOut.raised
        /\ TableSegsOf(fOut.segs) = << TableSeg(C9_LastInSource) >>

\* the lines of the content
C10_Lines == Split(fText, "\n")

\* the lines that hold a bar
C10_BarLines == SelectSeq(Indices(Len(C10_Lines)), LAMBDA i : HasChar(C10_Lines[i], "|"))

\* the number of bars of a line
C10_Bars(line) == Len(Positions(line, "|"))

\* a line of dashes, colons, bars and blanks with a dash in it
C10_IsSeparator(line) ==
    /\ \A k \in 1..Len(line) : line[k] \in {"-", ":", "|", " "}
    /\ HasChar(line, "-")

\* the cells of a line that starts and ends with a bar
C10_Cells(line) == StripAll(Split(SubSeq(line, 2, Len(line) - 1), "|"))

\* the content is prose around one well-formed pipe table: the lines with
\* bars follow each other, each starts and ends with a bar and has as many
\* bars as the first, the second is the separator and no other is, and
\* there is a data row
C10_SingleTable ==
    /\ ~HasChar(fText, "\t")
    /\ Len(C10_BarLines) >= 3
    /\ \A k \in 1..Len(C10_BarLines) :
          /\ C10_BarLines[k] = C10_BarLines[1] + k - 1
          /\ C10_Lines[C10_BarLines[k]][1] = "|"
          /\ C10_Lines[C10_BarLines[k]][Len(C10_Lines[C10_BarLines[k]])] = "|"
          /\ C10_Bars(C10_Lines[C10_BarLines[k]]) = C10_Bars(C10_Lines[C10_BarLines[1]])
          /\ C10_IsSeparator(C10_Lines[C10_BarLines[k]]) <=> k = 2

\* N: the number of columns of that table
C10_Columns == C10_Bars(C10_Lines[C10_BarLines[1]]) - 1

\* the data rows of that table that are not all-empty
C10_FullRows ==
    { k \in 3..Len(C10_BarLines) :
        \E c \in 1..C10_Columns : C10_Cells(C10_Lines[C10_BarLines[k]])[c] # <<>> }

\* C10: formatting a content that holds one well-formed pipe table of N
\* columns and M >= 1 data rows, wherever it sits and also at the very end
\* with no newline after it, gives exactly one Table segment with N header
\* entries and at most M rows, a row missing only if it is all-empty.
C10_SinglePipeTable ==
    (fPc.at = "done" /\ C10_SingleTable) =>
        /\ ~fOut.raised
        /\ Len(TableSegsOf(fOut.segs)) = 1
        /\ Len(TableSegsOf(fOut.segs)[1].header) = C10_Columns
        /\ Len(TableSegsOf(fOut.segs)[1].rows) <= Len(C10_BarLines) - 2
        /\ Len(TableSegsOf(fOut.segs)[1].rows) >= Cardinality(C10_FullRows)

-----------------------------------------------------------------------------
(* update_chat: the chat callback (specification Spec)                     *)
(*                                                                         *)
(* The page holds the conversation in a dcc.Store.  An event of the page   *)
(* sends a request that carries the values of the message box and of the   *)
(* store as they are at that moment; update_chat works on these values     *)
(* and its outputs replace the display and the store when they arrive.     *)
(* Invocations run in threads of one process and overlap.  One that takes  *)
(* the send branch calls get_client on its way (lines 693, 212) and waits  *)
(* twice, for the token when no client is cached and for the endpoint; it  *)
(* reads and writes nothing of the page meanwhile.  An invocation whose    *)
(* page is loaded again runs on in the process.                            *)

\* the most events a page sends after it is loaded
MaxSends == 2

\* a message long enough to be shown as a paragraph
PlainText == << "d", "o", "n", "e", "." >>

\* a pipe table whose header repeats a label, followed by prose
DupTableText ==
    << "|", "A", "|", "A", "|", "\n", "|", "-", "|", "-", "|", "\n", "|",
       "1", "|", "2", "|", "\n", "x", " ", "y", " ", "z", " ", "w" >>

\* a reply with one output that holds one content with that text
ReplyOf(text) ==
    Env(NoExc, NoExc, Val(<< [content |-> Val(<< [text |-> Val(text)] >>)] >>))

\* what the endpoint can do with a call: answer with prose, answer with the
\* table, or fail
ChatEnvs ==
    { ReplyOf(PlainText), ReplyOf(DupTableText),
      Env(NoExc, Raise("ValueError", << "4", "0", "1" >>), Val(<<>>)) }

\* what get_client does for an invocation that finds no cached client: it
\* returns the client it built, or the constructor raises (line 120)
ChatClients == { NoExc, Raise("TypeError", << "p", "r", "o", "x", "i", "e", "s" >>) }

\* what the message box can hold: nothing, blanks, a question
UserMessages == { <<>>, << " " >>, << "h", "i" >> }

\* the components an event can come from
Triggers == { "send-button", "user-input", "clear-button" }

Turn(role, content) == [role |-> role, content |-> content]

\* the Div of a message: its role, its components, and whether formatting raised
MessageDiv(role, formatted) ==
    [role |-> role, raised |-> formatted.raised, segs |-> formatted.segs]

\* create_message_div: a user message is shown as it is, any other is formatted
create_message_div(role, content) ==
    IF role = "user"
    THEN MessageDiv(role, [raised |-> FALSE, segs |-> << Seg("Span", content, <<>>, <<>>, <<>>) >>])
    ELSE MessageDiv(role, format_response_content(content))

\* the loop that builds chat_display
ChatDisplay(history) ==
    [i \in 1..Len(history) |-> create_message_div(history[i].role, history[i].content)]

\* the invocation ends in the exception of a message that cannot be formatted
Failed(request, called, input) ==
    Outputs(request, called, input, TRUE, <<>>, <<>>)

\* return chat_display, conversation_history, "", "" -- unless the loop raised
Shown(request, called, input, history, chat_display) ==
    IF \E i \in 1..Len(chat_display) : chat_display[i].raised
    THEN Failed(request, called, input)
    ELSE Outputs(request, called, input, FALSE, history, chat_display)

\* the display is built from the history and both are returned
Rendered(request, called, input, history) ==
    Shown(request, called, input, history, ChatDisplay(history))

\* the clear branch with the history left as received
ClearedKeeps(request) == Rendered(request, FALSE, <<>>, request.history)

\* the clear branch: return [], [], "", ""
Cleared(request) == Outputs(request, FALSE, <<>>, FALSE, <<>>, <<>>)

\* the history of the send branch without the turns received
SendHistoryFresh(received, message, reply) ==
    << Turn("user", message), Turn("assistant", reply) >>

\* the history of the send branch without the append of the reply
SendHistoryUserOnly(received, message, reply) ==
    received \o << Turn("user", message) >>

\* conversation_history after the two appends of the send branch
SendHistory(received, message, reply) ==
    received \o << Turn("user", message), Turn("assistant", reply) >>

\* the send branch: the user turn is appended (lines 674-677) and
\* get_agent_response is called (line 693).  The endpoint is called with
\* the history that ends with the user turn (line 216) only when get_client
\* has returned a client; when it raised (lines 114, 120), the except
\* clauses of get_agent_response return a diagnostic and no call is made.
\* What get_agent_response returns is appended as the assistant turn.
SendBranch(request, env) ==
    LET called == env.client = NoExc
        input == IF called THEN Append(request.history, Turn("user", request.message))
                 ELSE <<>>
        result == get_agent_response(env)
    IN IF result.raised THEN Failed(request, called, input)
       ELSE Rendered(request, called, input,
                     SendHistory(request.history, request.message, result.value))

\* the test of the send branch without user_message.strip()
HasMessageUntrimmed(request) == request.message # <<>>

\* if user_message and user_message.strip()
HasMessage(request) == request.message # <<>> /\ ~IsBlank(request.message)

\* update_chat on the values of a request, get_client and the endpoint
\* behaving as env says
update_chat(request, env) ==
    IF request.trigger = "none" THEN Outputs(request, FALSE, <<>>, FALSE, <<>>, <<>>)
    ELSE IF request.trigger = "clear-button" THEN Cleared(request)
    ELSE IF request.trigger \in {"send-button", "user-input"} /\ HasMessage(request)
    THEN SendBranch(request, env)
    ELSE Rendered(request, FALSE, <<>>, request.history)

\* the call Dash makes when the page is loaded: nothing triggered, the
\* store as the layout defines it
InitialRequest == Request("none", <<>>, <<>>)

Init ==
    /\ store = <<>> /\ display = <<>>
    /\ inflight = << InitialRequest >>
    /\ lastCall = NoCall /\ nSends = 0
    /\ ExtractIdle /\ FormatIdle /\ RowIdle /\ TokenIdle /\ ClientIdle /\ AttrIdle

\* the page is loaded again: the layout's empty store, no invocation made
\* for this page yet and no answer awaited but that of the initial call
PageLoad ==
    /\ store' = <<>> /\ display' = <<>>
    /\ inflight' = << InitialRequest >>
    /\ lastCall' = NoCall /\ nSends' = 0
    /\ UNCHANGED <<xReply, xResult, xPc, fText, fOut, fPc,
                 rowVars, tokenVars, clientVars, attrVars>>

\* a button is clicked or Enter is pressed: the request takes the message
\* box and the store as they are now
Fire(trigger, message) ==
    /\ nSends < MaxSends
    /\ inflight' = Append(inflight, Request(trigger, message, store))
    /\ nSends' = nSends + 1
    /\ UNCHANGED <<store, display, lastCall, xReply, xResult, xPc, fText, fOut, fPc,
                 rowVars, tokenVars, clientVars, attrVars>>

\* the outputs of an invocation reach the page; nothing does when it raised
Applied(i, outputs) ==
    /\ lastCall' = outputs
    /\ inflight' = SubSeq(inflight, 1, i - 1) \o SubSeq(inflight, i + 1, Len(inflight))
    /\ store' = IF outputs.raised THEN store ELSE outputs.history
    /\ display' = IF outputs.raised THEN display ELSE outputs.display

\* the invocation on this request takes the send branch
Sends(request) ==
    request.trigger \in {"send-button", "user-input"} /\ HasMessage(request)

\* update_chat starts on the i-th request awaited, takes the send branch and
\* calls get_agent_response (line 693), which calls get_client (line 212)
Start(i) ==
    /\ i \in 1..Len(inflight)
    /\ inflight[i].stage = "sent" /\ Sends(inflight[i])
    /\ cached = NoClient => Len(waiting) < MaxCalls
    /\ EnterClient(NoToken)
    /\ inflight' = [inflight EXCEPT ![i].stage =
                                       IF cached # NoClient THEN "call" ELSE "client"]
    /\ UNCHANGED <<store, display, lastCall, nSends, nCalls, xReply, xResult, xPc, fText,
                   fOut, fPc, rowVars, tokenVars, attrVars>>

\* the invocations awaited that are inside get_client, past line 108
InClient == { i \in 1..Len(inflight) : inflight[i].stage = "client" }

\* get_client comes back from lines 111-130 for the invocation on the i-th
\* request awaited.  With the token found and the client built, the client
\* is cached and the invocation goes on to the endpoint.  With no token
\* found (line 114) or the constructor raising (line 120) nothing is cached,
\* get_agent_response returns the diagnostic of its except clause and
\* update_chat goes to its end without a wait: its outputs arrive.
Built(i, client) ==
    /\ i \in InClient /\ waiting # <<>>
    /\ LET outcome == ClientOutcome(client, cached, Len(made) + 1)
       IN /\ LeaveClient(1, outcome)
          /\ IF outcome.raised
             THEN Applied(i, update_chat(inflight[i], Env(client, NoExc, Val(<<>>))))
             ELSE /\ inflight' = [inflight EXCEPT ![i].stage = "call"]
                  /\ UNCHANGED <<store, display, lastCall>>
    /\ UNCHANGED <<nSends, nCalls, xReply, xResult, xPc, fText, fOut, fPc,
                   rowVars, tokenVars, attrVars>>

\* the same for an invocation whose page was loaded again meanwhile: it
\* runs on in the process, and nothing on the page awaits it
BuiltUnawaited(client) ==
    /\ Len(waiting) > Cardinality(InClient)
    /\ LeaveClient(1, ClientOutcome(client, cached, Len(made) + 1))
    /\ UNCHANGED <<store, display, inflight, lastCall, nSends, nCalls, xReply, xResult,
                   xPc, fText, fOut, fPc, rowVars, tokenVars, attrVars>>

\* update_chat comes to its end on the i-th request awaited and its outputs
\* arrive: the endpoint has answered the call of the send branch as env
\* says, or the invocation took another branch and called nothing
Arrive(i, env) ==
    /\ i \in 1..Len(inflight)
    /\ inflight[i].stage = IF Sends(inflight[i]) THEN "call" ELSE "sent"
    /\ Applied(i, update_chat(inflight[i], env))
    /\ UNCHANGED <<nSends, xReply, xResult, xPc, fText, fOut, fPc,
                   rowVars, tokenVars, clientVars, attrVars>>

Next ==
    \/ PageLoad
    \/ \E trigger \in Triggers, message \in UserMessages : Fire(trigger, message)
    \/ \E i \in 1..MaxSends + 1 : Start(i)
    \/ \E i \in 1..MaxSends + 1, client \in ChatClients : Built(i, client)
    \/ \E client \in ChatClients : BuiltUnawaited(client)
    \/ \E i \in 1..MaxSends + 1, env \in ChatEnvs : Arrive(i, env)

Spec == Init /\ [][Next]_vars

-----------------------------------------------------------------------------
(* The chat callback (C5 to C8), under Spec                                 *)

\* the last invocation came from a send event with a message that is not blank
SendCall ==
    /\ lastCall.trigger \in {"send-button", "user-input"}
    /\ lastCall.message # <<>> /\ ~IsBlank(lastCall.message)

\* p is a prefix of h
IsPrefix(p, h) == Len(p) <= Len(h) /\ SubSeq(h, 1, Len(p)) = p

\* C5: a send event with a message that is not blank appends the user turn,
\* calls the endpoint with the history that ends with that turn, appends
\* the assistant turn and renders the whole history; the history returned
\* is the one received followed by the user turn and the assistant turn.
C5_SendAppendsBoth ==
    SendCall =>
        /\ lastCall.called
        /\ lastCall.input = Append(lastCall.received, Turn("user", lastCall.message))
        /\ ~lastCall.raised
        /\ Len(lastCall.history) = Len(lastCall.received) + 2
        /\ SubSeq(lastCall.history, 1, Len(lastCall.input)) = lastCall.input
        /\ lastCall.history[Len(lastCall.history)].role = "assistant"
        /\ Len(lastCall.display) = Len(lastCall.history)

\* C6: the history an invocation returns has the history it received as a
\* prefix, unless the event is the clear button.
C6_AppendOnly ==
    (lastCall.trigger \notin {"idle", "clear-button"} /\ ~lastCall.raised) =>
        IsPrefix(lastCall.received, lastCall.history)

\* a send on a history that holds turns, for which get_client raised and no
\* endpoint was called, returned a longer one
C6_Witness ==
    /\ SendCall /\ ~lastCall.raised /\ ~lastCall.called
    /\ lastCall.received # <<>>
    /\ Len(lastCall.history) > Len(lastCall.received)

\* C7: on a clear-button event update_chat returns an empty history and an
\* empty display and calls no endpoint, whatever it received.
C7_ClearEmpties ==
    lastCall.trigger = "clear-button" =>
        /\ ~lastCall.raised /\ ~lastCall.called
        /\ lastCall.history = <<>> /\ lastCall.display = <<>>
        /\ store = <<>> /\ display = <<>>

\* the clear button was used with turns in the store and a message in the box
C7_Witness ==
    /\ lastCall.trigger = "clear-button"
    /\ lastCall.received # <<>>
    /\ lastCall.message = << "h", "i" >>

\* the requests of send events awaited whose message is not blank
C8_Outstanding ==
    { i \in 1..Len(inflight) :
        /\ inflight[i].trigger \in {"send-button", "user-input"}
        /\ HasMessage(inflight[i]) }

\* C8: at most one model call is outstanding in a conversation: no send
\* starts on a history that lacks the assistant turn of the send before it.
C8_OneOutstanding == Cardinality(C8_Outstanding) <= 1

-----------------------------------------------------------------------------
(* Column-count reconciliation of a data row (specification SpecRow)        *)
(*                                                                         *)
(* raw_cells is what the reconciliation receives: the stripped cells of a  *)
(* line after the empty cells at both ends were popped, so it is not empty *)
(* and neither its first nor its last cell is.                              *)

\* the most cells of a row
MaxRowCells == 4

\* the most header columns
MaxCols == 3

\* the cells a row is made of: empty, digits, letters, a digit and a letter
RowCells ==
    { <<>>, << "7" >>, << "1", "2" >>, << "x" >>, << "1", "x" >> }

InitRow ==
    /\ \E cell \in RowCells \ {<<>>}, n \in 1..MaxCols :
          rIn = [raw_cells |-> << cell >>, num_cols |-> n]
    /\ rOut = <<>> /\ rPc = "input"
    /\ ExtractIdle /\ FormatIdle /\ ChatIdle /\ TokenIdle /\ ClientIdle /\ AttrIdle

\* the row gets one more cell
AddCell(cell) ==
    /\ rPc = "input" /\ Len(rIn.raw_cells) < MaxRowCells
    /\ rIn' = [rIn EXCEPT !.raw_cells = Append(@, cell)]
    /\ UNCHANGED <<rOut, rPc, xReply, xResult, xPc, fText, fOut, fPc, store, display,
                   inflight, lastCall, nSends, tokenVars, clientVars, attrVars>>

\* the reconciliation runs on a row whose last cell is not empty
RowRun ==
    /\ rPc = "input" /\ rIn.raw_cells[Len(rIn.raw_cells)] # <<>>
    /\ rOut' = ReconcileRow(rIn.raw_cells, rIn.num_cols)
    /\ rPc' = "done"
    /\ UNCHANGED <<rIn, xReply, xResult, xPc, fText, fOut, fPc, store, display,
                   inflight, lastCall, nSends, tokenVars, clientVars, attrVars>>

NextRow ==
    \/ \E cell \in RowCells : AddCell(cell)
    \/ RowRun

SpecRow == InitRow /\ [][NextRow]_vars

\* a cell made of digits only
C11_Numeric(cell) ==
    cell # <<>> /\ \A i \in 1..Len(cell) : cell[i] \in {"0", "1", "2", "3", "4", "5", "6", "7", "8", "9"}

\* the row the statement gives for cells against a header of n columns
C11_Expected(cells, n) ==
    IF Len(cells) < n THEN cells \o [i \in 1..(n - Len(cells)) |-> <<>>]
    ELSE IF Len(cells) = n THEN cells
    ELSE IF C11_Numeric(cells[1]) THEN SubSeq(cells, 2, n + 1)
    ELSE SubSeq(cells, 1, n)

\* C11: against a header of N columns a row with fewer cells is padded on
\* the right with empty strings, a longer row whose first cell is purely
\* numeric loses that cell and keeps the next N, and any other longer row
\* keeps its first N cells.
C11_Reconciled ==
    rPc = "done" => rOut = C11_Expected(rIn.raw_cells, rIn.num_cols)

\* four cells against three columns, the first one numeric: it is dropped
C11_Witness ==
    /\ rPc = "done" /\ rIn.num_cols = 3
    /\ rIn.raw_cells = << << "7" >>, << "1", "2" >>, << "x" >>, << "1", "x" >> >>
    /\ rOut = << << "1", "2" >>, << "x" >>, << "1", "x" >> >>

-----------------------------------------------------------------------------
(* The tables of parse_markdown_table (C12), under SpecRagged               *)

\* the tables extracted from the text as it is
C12_Tables == parse_markdown_table(fText).tables

\* C12: in every table that parse_markdown_table returns, of either kind,
\* every row has exactly as many cells as the header.
C12_RowsFitHeader ==
    \A i \in 1..Len(C12_Tables) :
        \A r \in 1..Len(C12_Tables[i].rows) :
            Len(C12_Tables[i].rows[r]) = Len(C12_Tables[i].header)

\* a row of one cell under a header of two is in the table with two cells
C12_Witness ==
    /\ fText = PiecePipe \o PieceShortRow \o PieceText
    /\ Len(C12_Tables) = 1
    /\ C12_Tables[1].header = << << "A" >>, << "B" >> >>
    /\ C12_Tables[1].rows = << << << "1" >>, << "2" >> >>, << << "9" >>, <<>> >> >>


-----------------------------------------------------------------------------
(* Runs of format_response_content on tagged contents (specification       *)
(* SpecTags): the content is put together from name tags, prose and the    *)
(* two halves of a split tag.                                               *)

\* the tag of the worker agent genie
TagGenie ==
    << "<", "n", "a", "m", "e", ">", "g", "e", "n", "i", "e", "<", "/", "n",
       "a", "m", "e", ">" >>

\* the tag of a worker agent with an underscore in its name
TagHrBot ==
    << "<", "n", "a", "m", "e", ">", "h", "r", "_", "b", "o", "t", "<", "/",
       "n", "a", "m", "e", ">" >>

\* the tag of the supervisor
TagSupervisor ==
    << "<", "n", "a", "m", "e", ">", "s", "u", "p", "e", "r", "v", "i", "s",
       "o", "r", "<", "/", "n", "a", "m", "e", ">" >>

\* the tag of an agent whose name contains the word supervisor
TagSummarizer ==
    << "<", "n", "a", "m", "e", ">", "s", "u", "p", "e", "r", "v", "i", "s",
       "o", "r", "_", "s", "u", "m", "m", "a", "r", "i", "z", "e", "r", "<",
       "/", "n", "a", "m", "e", ">" >>

\* a line of prose with no line break after it
PieceSomeText ==
    << "S", "o", "m", "e", " ", "t", "e", "x", "t" >>

\* the opening half of a tag
PieceTagOpen ==
    << "<", "n", "a" >>

\* the closing half of a tag, and prose
PieceTagRest ==
    << "m", "e", ">", "f", "o", "o", "<", "/", "n", "a", "m", "e", ">", " ",
       "h", "e", "l", "l", "o" >>

TagPieces ==
    { TagGenie, TagHrBot, TagSupervisor, TagSummarizer, PieceSomeText,
      PieceTagOpen, PieceTagRest }

NextTags ==
    \/ \E piece \in TagPieces : AddPiece(piece)
    \/ FormatRun

SpecTags == InitFormat /\ [][NextTags]_vars


-----------------------------------------------------------------------------
(* Runs of format_response_content on contents of short lines              *)
(* (specification SpecFallback): no line is long enough for a paragraph.   *)

\* a short bold line
PieceBold ==
    << "*", "*", "a", "\n" >>

\* a short line
PieceShort ==
    << "o", "k", "\n" >>

\* 47 characters of short bold lines
PieceBoldLong ==
    << "*", "*", "a", "\n", "*", "*", "a", "\n", "*", "*", "a", "\n", "*", "*",
       "a", "\n", "*", "*", "a", "\n", "*", "*", "a", "\n", "*", "*", "a",
       "\n", "*", "*", "a", "\n", "*", "*", "a", "\n", "*", "*", "a", "\n",
       "*", "*", "a", "\n", "*", "*", "\n" >>

\* the marker that is removed from the content
PieceEmpty ==
    << "E", "M", "P", "T", "Y" >>

FallbackPieces ==
    { PieceBold, PieceShort, PieceBoldLong, PieceEmpty, PieceSomeText, TagGenie }

NextFallback ==
    \/ \E piece \in FallbackPieces : AddPiece(piece)
    \/ FormatRun

SpecFallback == InitFormat /\ [][NextFallback]_vars


-----------------------------------------------------------------------------
(* The fallback of format_response_content (C13), under SpecFallback       *)

C13_Clean == ContentClean(fText)

\* the badges, paragraphs and tables the content gives
C13_Assembled ==
    BadgeSegs(AgentNames(fText))
    \o ParagraphSegs(NormalizeSummary(parse_markdown_table(C13_Clean).summary))
    \o TableSegs(parse_markdown_table(C13_Clean).tables).segs

\* the run is over and no badge, paragraph or table was produced
C13_NoSegments == fPc.at = "done" /\ ~fOut.raised /\ C13_Assembled = <<>>

C13_IsBareHeader ==
    /\ Len(C13_Clean) >= 2 /\ C13_Clean[1] = "*" /\ C13_Clean[2] = "*"
    /\ Len(C13_Clean) < MaxHeaderLen

\* C13 as stated: with no segment assembled the result is one segment, the
\* fixed notice for a stripped content shorter than 5 characters and
\* otherwise the stripped content echoed and nothing else.
C13_NoticeOrEcho ==
    C13_NoSegments =>
        fOut.segs = << IF Len(C13_Clean) < MinContentLen
                       THEN Seg("Notice", <<>>, <<>>, <<>>, <<>>)
                       ELSE Seg("Span", C13_Clean, <<>>, <<>>, <<>>) >>

\* C13 amended: with no segment assembled the result is one segment: the
\* fixed notice for a stripped content shorter than 5 characters, else for a
\* content that starts with ** and is shorter than 50 characters one block
\* holding the content and a fixed warning after it, else the stripped
\* content echoed and nothing else.
C13_NoticeHeaderOrEcho ==
    C13_NoSegments =>
        fOut.segs = << IF Len(C13_Clean) < MinContentLen
                       THEN Seg("Notice", <<>>, <<>>, <<>>, <<>>)
                       ELSE IF C13_IsBareHeader
                       THEN Seg("Ack", C13_Clean, <<>>, <<>>, <<>>)
                       ELSE Seg("Span", C13_Clean, <<>>, <<>>, <<>>) >>

\* two short bold lines: the content comes back with the warning after it
C13_Witness ==
    /\ fPc.at = "done" /\ fText = PieceBold \o PieceBold
    /\ C13_NoSegments
    /\ fOut.segs = << Seg("Ack", << "*", "*", "a", "\n", "*", "*", "a" >>, <<>>, <<>>, <<>>) >>


-----------------------------------------------------------------------------
(* format_response_content and its caller (C14), under SpecRagged          *)

\* C14: format_response_content never raises to its caller: for every
\* content, a table whose header repeats a column name included, it returns
\* a list of segments.
C14_NeverRaises == fPc.at = "done" => ~fOut.raised


-----------------------------------------------------------------------------
(* Agent tags and badges (C15, C16) and the paragraphs of a second run     *)
(* (C17), under SpecTags                                                    *)

\* the names collected from the tags of the content
C15_Names == AgentNames(fText)

\* the badge texts of the result
C15_Badges ==
    IF fOut.segs # <<>> /\ fOut.segs[1].kind = "Badges" THEN fOut.segs[1].names ELSE <<>>

C15_HasBadge(name) == \E j \in 1..Len(C15_Badges) : C15_Badges[j] = BadgeText(name)

\* C15: a collected name gets no badge if and only if it equals
\* "supervisor" ignoring case; a name that only contains the word is badged.
C15_OnlySupervisorFiltered ==
    fPc.at = "done" =>
        \A i \in 1..Len(C15_Names) :
            ~C15_HasBadge(C15_Names[i]) <=> Lower(C15_Names[i]) = SupervisorWord

\* the distinct names other than "supervisor", in first-occurrence order
C16_Workers ==
    SelectSeq(UniqueNames(AgentNames(fText)), LAMBDA a : Lower(a) # SupervisorWord)

\* the paragraphs of the content with its tags stripped
C16_Paragraphs ==
    ParagraphSegs(NormalizeSummary(parse_markdown_table(ContentClean(fText)).summary))

C16_Example == TagGenie \o TagSupervisor \o PieceSomeText

\* C16: the names are collected in order of appearance, the tags are
\* stripped from the text, and one badge is emitted per distinct name other
\* than "supervisor", in first-occurrence order, title-cased with
\* underscores as spaces, before the paragraphs; the example content gives
\* the badge "Genie" and the paragraph "Some text".
C16_BadgesThenText ==
    (fPc.at = "done" /\ C16_Workers # <<>>) =>
        /\ fOut.segs = BadgeSeg(C16_Workers) \o C16_Paragraphs
        /\ fText = C16_Example =>
               fOut.segs = << Seg("Badges", <<>>, << << "G", "e", "n", "i", "e" >> >>, <<>>, <<>>),
                              Seg("P", PieceSomeText, <<>>, <<>>, <<>>) >>

\* the texts of the paragraph segments of a result
ParagraphTexts(segs) ==
    [i \in 1..Len(SelectSeq(segs, LAMBDA g : g.kind = "P")) |->
        SelectSeq(segs, LAMBDA g : g.kind = "P")[i].text]

\* the paragraphs of a result written back as text, one to a line
Reserialized(segs) == Join(ParagraphTexts(segs), << "\n" >>)

\* C17: the paragraphs of a result, written back as text and formatted
\* again, give the same paragraphs.
C17_SameParagraphs ==
    (fPc.at = "done" /\ ~fOut.raised) =>
        ParagraphTexts(format_response_content(Reserialized(fOut.segs)).segs)
            = ParagraphTexts(fOut.segs)


-----------------------------------------------------------------------------
(* The diagnostics of get_agent_response (C18), under SpecExtract          *)

\* the exception that client acquisition or the endpoint call raised
C18_Failure == IF xReply.client # NoExc THEN xReply.client ELSE xReply.call

C18_Failed == xPc = "done" /\ C18_Failure # NoExc

\* one of the words occurs in the lowercased message
C18_Mentions(msg, words) == \E w \in words : HasSub(Lower(msg), w)

C18_PermissionWords == { << "i", "n", "v", "a", "l", "i", "d", " ", "s", "c", "o", "p", "e" >>, << "4", "0", "3" >>, << "f", "o", "r", "b", "i", "d", "d", "e", "n" >> }

C18_NotFoundWords == { << "4", "0", "4" >>, << "n", "o", "t", " ", "f", "o", "u", "n", "d" >> }

C18_AuthWords == { << "4", "0", "1" >>, << "u", "n", "a", "u", "t", "h", "o", "r", "i", "z", "e", "d" >> }

\* the categories in the order they are tried, each with whether it matches
C18_Rules(e) ==
    << [category |-> "configuration", matches |-> e.type = "ValueError"],
       [category |-> "format", matches |-> e.type = "AttributeError"],
       [category |-> "client", matches |-> e.type = "TypeError"],
       [category |-> "permission", matches |-> C18_Mentions(e.msg, C18_PermissionWords)],
       [category |-> "not-found", matches |-> C18_Mentions(e.msg, C18_NotFoundWords)],
       [category |-> "authentication", matches |-> C18_Mentions(e.msg, C18_AuthWords)],
       [category |-> "generic", matches |-> TRUE] >>

\* the first category that matches
C18_Category(e) ==
    C18_Rules(e)[CHOOSE i \in 1..7 :
                    /\ C18_Rules(e)[i].matches
                    /\ \A j \in 1..(i - 1) : ~C18_Rules(e)[j].matches].category

\* the text each category starts with
C18_Label(category) ==
    CASE category = "configuration" -> ConfigPrefix
      [] category = "format" -> FormatPrefix
      [] category = "client" -> ClientPrefix
      [] category = "permission" -> SubSeq(PermissionText, 1, 20)
      [] category = "not-found" -> SubSeq(NotFoundText, 1, 20)
      [] category = "authentication" -> SubSeq(AuthErrorText, 1, 20)
      [] category = "generic" -> GenericPrefix

C18_Categories ==
    { "configuration", "format", "client", "permission", "not-found", "authentication",
      "generic" }

\* C18: a failure of client acquisition or of the endpoint call gives a
\* diagnostic string of exactly one category, the first that matches in the
\* order: configuration (ValueError), response format (AttributeError),
\* client (TypeError), then by the lowercased message permission, not-found,
\* authentication, and generic otherwise.
C18_FirstMatch ==
    C18_Failed =>
        /\ ~xResult.raised
        /\ \A c \in C18_Categories :
               IsPrefix(C18_Label(c), xResult.value) <=> c = C18_Category(C18_Failure)

\* a message that names both 401 and 403 is a permission matter
C18_Witness ==
    /\ C18_Failed
    /\ xReply.call = Raise("APIError", << "4", "0", "1", " ", "o", "r", " ", "4", "0", "3" >>)
    /\ xResult = Returned(PermissionText \o xReply.call.msg, "Exception")


-----------------------------------------------------------------------------
(* Runs of get_databricks_token (specification SpecToken)                   *)

\* an environment variable: unset, empty, or set
EnvValues(s) == { NoToken, Token(""), Token(s) }

\* what the OAuth exchange does
Exchanges ==
    { [kind |-> "raise", token |-> NoToken], [kind |-> "status", token |-> NoToken] }
    \cup { [kind |-> "json", token |-> t] : t \in EnvValues("sp-token") }

\* what the secret store does
Secrets ==
    { [kind |-> "raise", token |-> NoToken] }
    \cup { [kind |-> "value", token |-> t] : t \in EnvValues("secret") }

TokenEnvs ==
    [client_id : EnvValues("id"), client_secret : EnvValues("key"), exchange : Exchanges,
     env_token : EnvValues("pat"), secret : Secrets]

InitToken ==
    /\ tEnv \in TokenEnvs /\ tOut = TokenOut(FALSE, NoToken) /\ tPc = "input"
    /\ ExtractIdle /\ FormatIdle /\ ChatIdle /\ RowIdle /\ ClientIdle /\ AttrIdle

\* get_databricks_token runs in the environment set up
TokenRun ==
    /\ tPc = "input"
    /\ tOut' = get_databricks_token(tEnv)
    /\ tPc' = "done"
    /\ UNCHANGED <<tEnv, xReply, xResult, xPc, fText, fOut, fPc, store, display, inflight,
                   lastCall, nSends, rowVars, clientVars, attrVars>>

NextToken == TokenRun

SpecToken == InitToken /\ [][NextToken]_vars

-----------------------------------------------------------------------------
(* The priority of the token sources (C19), under SpecToken                *)

\* what each source has to offer, in priority order: the access token of a
\* successful exchange when both Service Principal variables are set,
\* DATABRICKS_TOKEN, the secret; NoToken for a source that yields nothing
C19_Sources ==
    << IF Truthy(tEnv.client_id) /\ Truthy(tEnv.client_secret)
          /\ tEnv.exchange.kind = "json" /\ Truthy(tEnv.exchange.token)
       THEN tEnv.exchange.token ELSE NoToken,
       IF Truthy(tEnv.env_token) THEN tEnv.env_token ELSE NoToken,
       IF tEnv.secret.kind = "value" /\ Truthy(tEnv.secret.token)
       THEN tEnv.secret.token ELSE NoToken >>

\* C19: get_databricks_token returns the token of the first source that has
\* one (Service Principal exchange, DATABRICKS_TOKEN, secret), returns None
\* only when none of the three has one, and never raises: a failed or
\* token-less exchange falls through to the next source.
C19_FirstAvailable ==
    tPc = "done" =>
        /\ ~tOut.raised
        /\ \A i \in 1..3 :
               (C19_Sources[i] # NoToken /\ \A j \in 1..(i - 1) : C19_Sources[j] = NoToken)
                   => tOut.token = C19_Sources[i]
        /\ tOut.token = NoToken <=> \A i \in 1..3 : C19_Sources[i] = NoToken

\* the exchange fails with both variables set: DATABRICKS_TOKEN is returned
C19_Witness ==
    /\ tPc = "done"
    /\ tEnv.client_id = Token("id") /\ tEnv.client_secret = Token("key")
    /\ tEnv.exchange.kind = "status"
    /\ tEnv.env_token = Token("pat") /\ tEnv.secret.token = Token("secret")
    /\ tOut = TokenOut(FALSE, Token("pat"))


-----------------------------------------------------------------------------
(* Calls of get_client (specification SpecClient)                           *)
(*                                                                         *)
(* The callbacks of the page run in threads of one process, so calls of    *)
(* get_client overlap.  A call with a user token, or one that finds a      *)
(* cached client at line 108, returns without waiting.  Any other call     *)
(* goes on to get_databricks_token, which may wait for the token endpoint, *)
(* and other calls run before it reaches the assignment of line 128: it is *)
(* kept in waiting from the test of line 108 to its return.                *)
(* made lists the clients constructed so far; gLast records the call that  *)
(* returned last: its argument, _cached_client as it read it at line 108   *)
(* (before), as it was when the call came to its last lines (held) and as  *)
(* the call left it (after), and its outcome.                              *)

\* the values of the user_token argument: None, empty, two users' tokens
UserTokens == { NoToken, Token(""), Token("u1"), Token("u2") }

\* environments: nothing configured, DATABRICKS_TOKEN set, Service Principal
ClientEnvs ==
    { NoEnv,
      [NoEnv EXCEPT !.env_token = Token("pat")],
      [NoEnv EXCEPT !.client_id = Token("id"), !.client_secret = Token("key"),
                    !.exchange = [kind |-> "json", token |-> Token("sp-token")]] }

InitClient ==
    /\ ClientIdle /\ AttrIdle
    /\ ExtractIdle /\ FormatIdle /\ ChatIdle /\ RowIdle /\ TokenIdle

\* lines 98-109: a call starts; with a user token or a cached client it
\* returns, otherwise it goes on to get_databricks_token
GetClientEnter(user_token) ==
    /\ nCalls < MaxCalls
    /\ nCalls' = nCalls + 1
    /\ EnterClient(user_token)
    /\ UNCHANGED <<xReply, xResult, xPc, fText, fOut, fPc, store, display, inflight,
                   lastCall, nSends, rowVars, tokenVars, attrVars>>

\* lines 111-130: the i-th waiting call gets its token in environment env,
\* builds the client and assigns _cached_client, or raises
GetClientReturn(i, env) ==
    /\ i \in 1..Len(waiting)
    /\ LeaveClient(i, AppClient(get_databricks_token(env), cached, Len(made) + 1))
    /\ UNCHANGED <<nCalls, xReply, xResult, xPc, fText, fOut, fPc, store, display,
                   inflight, lastCall, nSends, rowVars, tokenVars, attrVars>>

\* the process starts again, which it can at any time: the module is loaded
\* anew (line 26) and the calls under way are gone with the old process
Restart ==
    /\ cached' = NoClient /\ waiting' = <<>> /\ served' = {}
    /\ UNCHANGED <<made, gLast, nCalls, xReply, xResult, xPc, fText, fOut, fPc, store,
                   display, inflight, lastCall, nSends, rowVars, tokenVars, attrVars>>

NextClient ==
    \/ \E user_token \in UserTokens : GetClientEnter(user_token)
    \/ \E i \in 1..MaxCalls, env \in ClientEnvs : GetClientReturn(i, env)
    \/ Restart

SpecClient == InitClient /\ [][NextClient]_vars

-----------------------------------------------------------------------------
(* User-token clients are never cached or shared (C20), under SpecClient    *)

\* the last call had a non-empty user token
C20_UserCall == gLast.ended /\ Truthy(gLast.user_token)

\* the clients constructed before the last call
C20_Earlier ==
    IF gLast.ended /\ ~gLast.raised /\ gLast.client = made[Len(made)]
       /\ (gLast.resolved \/ Truthy(gLast.user_token))
    THEN SubSeq(made, 1, Len(made) - 1) ELSE made

\* C20: a call with a non-empty user token t returns a newly created client
\* holding t and leaves the cached app client unchanged; the cached client
\* is never one built from a user token; and a call with another token or
\* with none never returns a client built for t or holding t.
C20_NeverCachedOrShared ==
    /\ C20_UserCall =>
           /\ ~gLast.raised
           /\ gLast.client.api_key = gLast.user_token
           /\ made # <<>> /\ gLast.client = made[Len(made)]
           /\ \A i \in 1..(Len(made) - 1) : made[i].id # gLast.client.id
           /\ gLast.after = gLast.before
    /\ ~cached.for_user
    /\ \A i \in 1..Len(C20_Earlier) :
           (C20_Earlier[i].for_user /\ C20_Earlier[i].api_key # gLast.user_token) =>
               /\ gLast.client.id # C20_Earlier[i].id
               /\ gLast.client.api_key # C20_Earlier[i].api_key

\* after a call with the token u1, a call with no token returns the app
\* client, which holds the app token
C20_Witness ==
    /\ nCalls = 2
    /\ made = << Client(1, Token("u1"), 0, TRUE), Client(2, Token("pat"), AppRetries, FALSE) >>
    /\ gLast.user_token = NoToken /\ ~gLast.raised
    /\ gLast.client = made[2] /\ cached = made[2]

-----------------------------------------------------------------------------
(* Runs of format_response_content on contents with malformed table        *)
(* candidates (specification SpecMalformed)                                 *)

\* three bar lines, the second one of colons: no separator line
PieceNoSep ==
    << "|", "A", "|", "B", "|", "\n", "|", ":", "|", ":", "|", "\n", "|", "1",
       "|", "2", "|", "\n" >>

\* three bar lines, the first one a separator line
PieceSepFirst ==
    << "|", "-", "|", "-", "|", "\n", "|", "-", "|", "-", "|", "\n", "|", "1",
       "|", "2", "|", "\n" >>

\* a header of blank cells
PieceNoHeader ==
    << "|", " ", "|", " ", "|", "\n", "|", "-", "|", "-", "|", "\n", "|", "1",
       "|", "2", "|", "\n" >>

\* a table whose only row is blank
PieceNoRows ==
    << "|", "A", "|", "B", "|", "\n", "|", "-", "|", "-", "|", "\n", "|", " ",
       "|", " ", "|", "\n" >>

\* a table whose header has an empty cell between two labels
PieceGapHead ==
    << "|", "A", "|", "|", "B", "|", "\n", "|", "-", "|", "-", "|", "-", "|",
       "\n", "|", "1", "|", "2", "|", "3", "|", "\n" >>

MalformedPieces ==
    { PieceNoSep, PieceSepFirst, PieceNoHeader, PieceNoRows, PieceGapHead, PiecePipe,
      PieceText }

NextMalformed ==
    \/ \E piece \in MalformedPieces : AddPiece(piece)
    \/ FormatRun

SpecMalformed == InitFormat /\ [][NextMalformed]_vars

-----------------------------------------------------------------------------
(* Malformed candidates are discarded (C21), under SpecMalformed            *)

\* the candidates: the matches of the pipe pattern in the content
C21_Candidates == PipeMatches(fText, FirstPipeMatch(fText, 1, Len(fText)))

\* the bar lines of a candidate
C21_Lines(m) == CandidateLines(Slice(fText, m.start, m.end))

\* the lines (1-based) of a candidate that are separator rows
C21_Separators(m) ==
    { i \in 1..Len(C21_Lines(m)) : IsSeparatorLine(C21_Lines(m)[i]) }

C21_FirstSeparator(m) ==
    CHOOSE i \in C21_Separators(m) : \A j \in C21_Separators(m) : i <= j

\* the header cells: those of the line before the first separator row
C21_Header(m) == TrimCells(StripCells(C21_Lines(m)[C21_FirstSeparator(m) - 1], "|"))

\* a line after the separator row gives a row
C21_RowSurvives(line, width) == PipeRow(TrimCells(StripCells(line, "|")), width) # <<>>

C21_Malformed(m) ==
    \/ C21_Separators(m) = {}
    \/ C21_FirstSeparator(m) = 1
    \/ C21_Header(m) = <<>>
    \/ \A i \in (C21_FirstSeparator(m) + 1)..Len(C21_Lines(m)) :
           ~C21_RowSurvives(C21_Lines(m)[i], Len(C21_Header(m)))

C21_TablesAt(m) ==
    SelectSeq(parse_markdown_table(fText).tables,
              LAMBDA t : t.start = m.start /\ t.end = m.end)

\* C21: a malformed candidate (no separator row, the separator its first
\* line, no header column, no surviving data row) yields no table, and every
\* other candidate of the same content yields its table; the formatter that
\* called the parser returns.
C21_MalformedDiscarded ==
    fPc.at = "done" =>
        /\ (\E k \in 1..Len(C21_Candidates) : C21_Malformed(C21_Candidates[k])) => ~fOut.raised
        /\ \A k \in 1..Len(C21_Candidates) :
               IF C21_Malformed(C21_Candidates[k])
               THEN C21_TablesAt(C21_Candidates[k]) = <<>>
               ELSE /\ Len(C21_TablesAt(C21_Candidates[k])) = 1
                    /\ C21_TablesAt(C21_Candidates[k])[1].header = C21_Header(C21_Candidates[k])

\* a candidate without separator row, prose, then a table: the table is found
C21_Witness ==
    /\ fPc.at = "done" /\ ~fOut.raised
    /\ fText = PieceNoSep \o PieceText \o PiecePipe
    /\ Len(C21_Candidates) = 2 /\ C21_Malformed(C21_Candidates[1])
    /\ Len(parse_markdown_table(fText).tables) = 1
    /\ parse_markdown_table(fText).tables[1].start = Len(PieceNoSep) + Len(PieceText)

-----------------------------------------------------------------------------
(* The header of an extracted table (C22), under SpecMalformed              *)

C22_Tables == parse_markdown_table(fText).tables

\* the bar lines of the source span of a table
C22_Lines(t) == CandidateLines(Slice(fText, t.start, t.end))

\* some bar line of the span, followed by a separator row, splits on bars
\* into the header
C22_PrecedesSeparator(t) ==
    \E i \in 1..(Len(C22_Lines(t)) - 1) :
        /\ IsSeparatorLine(C22_Lines(t)[i + 1])
        /\ TrimCells(StripCells(C22_Lines(t)[i], "|")) = t.header

\* C22: the header of every extracted table is the line before the
\* separator row split on bars, and it is a non-empty sequence of non-empty
\* trimmed strings.
C22_HeaderCellsNotEmpty ==
    fPc.at = "done" =>
        \A k \in 1..Len(C22_Tables) :
            /\ C22_PrecedesSeparator(C22_Tables[k])
            /\ C22_Tables[k].header # <<>>
            /\ \A c \in 1..Len(C22_Tables[k].header) :
                   /\ C22_Tables[k].header[c] # <<>>
                   /\ Strip(C22_Tables[k].header[c]) = C22_Tables[k].header[c]

-----------------------------------------------------------------------------
(* Runs of format_response_content on contents with blank rows             *)
(* (specification SpecBlank)                                                *)

\* a pipe row of two blank cells
PieceBlankRow ==
    << "|", " ", "|", " ", "|", "\n" >>

\* a pipe row of the two placeholder words
PieceNanRow ==
    << "|", "n", "a", "n", "|", "N", "o", "n", "e", "|", "\n" >>

\* a pipe row of four cells, a row number first and two empty cells after it:
\* read under a two-column header it is reconciled to two empty cells
PieceIndexBlank ==
    << "|", "1", "|", " ", "|", " ", "|", "x", "|", "\n" >>

BlankPieces ==
    { PiecePipe, PieceHeadSep, PieceBlankRow, PieceNanRow, PieceIndexBlank,
      PieceText }

NextBlank ==
    \/ \E piece \in BlankPieces : AddPiece(piece)
    \/ FormatRun

SpecBlank == InitFormat /\ [][NextBlank]_vars

-----------------------------------------------------------------------------
(* No blank table content (C23), under SpecBlank                            *)

C23_Tables == parse_markdown_table(fText).tables

\* the row has a cell that is not the empty string
C23_RowHasValue(row) == \E c \in 1..Len(row) : row[c] # <<>>

\* the cell is blank or a placeholder: the values line 567 shows as a dash
C23_Placeholder(cell) ==
    cell \in { <<>>, << "n", "a", "n" >>, << "N", "o", "n", "e" >> }

\* every column of the table holds placeholders only, in all its rows
C23_OnlyPlaceholders(rows) ==
    \A r \in 1..Len(rows) : \A c \in 1..Len(rows[r]) : C23_Placeholder(rows[r][c])

\* the data lines of a candidate: its bar lines after the first two
C23_DataLines(m) ==
    SubSeq(CandidateLines(Slice(fText, m.start, m.end)), 3,
           Len(CandidateLines(Slice(fText, m.start, m.end))))

\* every data line of the candidate is made of bars and whitespace
C23_OnlyBlankRows(m) ==
    \A i \in 1..Len(C23_DataLines(m)) :
        \A j \in 1..Len(C23_DataLines(m)[i]) : C23_DataLines(m)[i][j] \in {"|", " ", "\t"}

C23_Candidates == PipeMatches(fText, FirstPipeMatch(fText, 1, Len(fText)))

\* the table the formatter picks for display among those of the cleaned
\* content, if any
C23_Displayed ==
    TablesToDisplay(parse_markdown_table(ContentClean(fText)).tables)

\* no row of an extracted table has only empty cells, and a candidate whose
\* data rows are all blank yields no table
C23_EmptyRowsDropped ==
    fPc.at = "done" =>
        /\ \A k \in 1..Len(C23_Tables) :
               /\ C23_Tables[k].rows # <<>>
               /\ \A r \in 1..Len(C23_Tables[k].rows) : C23_RowHasValue(C23_Tables[k].rows[r])
        /\ \A k \in 1..Len(C23_Candidates) :
               C23_OnlyBlankRows(C23_Candidates[k]) =>
                   \A t \in 1..Len(C23_Tables) : C23_Tables[t].start # C23_Candidates[k].start

\* a Table segment all of whose cells are shown as the dash of a placeholder
C23_AllDashes(seg) ==
    /\ seg.kind = "Table"
    /\ \A r \in 1..Len(seg.rows) :
           \A c \in 1..Len(seg.rows[r]) : seg.rows[r][c] = << EmDash >>

\* C23: no row of an extracted table has only empty cells; a candidate whose
\* data rows are all blank yields no table; and no Table segment is emitted
\* for a table all of whose columns hold only blank or NaN-equivalent
\* placeholders in all rows.
C23_NoBlankContent ==
    /\ C23_EmptyRowsDropped
    /\ fPc.at = "done" =>
           ((\E s \in 1..Len(fOut.segs) : fOut.segs[s].kind = "Table") =>
               /\ C23_Displayed # <<>>
               /\ ~C23_OnlyPlaceholders(C23_Displayed[1].rows))

\* a table whose only row holds the two placeholder words was emitted, all
\* its cells shown as dashes
C23_PlaceholderTableShown ==
    /\ fPc.at = "done" /\ ~fOut.raised
    /\ C23_Displayed # <<>> /\ C23_OnlyPlaceholders(C23_Displayed[1].rows)
    /\ \E s \in 1..Len(fOut.segs) : C23_AllDashes(fOut.segs[s])

-----------------------------------------------------------------------------
(* Contents in which a tab table of dashes lies inside the separator rows   *)
(* of a pipe table                                                          *)

\* lines of dashes, two of them with a tab, a closing separator and a row
PieceDashTab ==
    << "-", "\t", "-", "\n", "-", " ", "-", "\n", "-", "\t", "-", "\n", "|",
       "-", "|", "\n", "|", "3", "|", "4", "|", "\n" >>

SpanPieces ==
    { PieceHeadSep, PieceDashTab, PieceText, PiecePipe, PieceTab }

NextSpans ==
    \/ \E piece \in SpanPieces : AddPiece(piece)
    \/ FormatRun

SpecSpans == InitFormat /\ [][NextSpans]_vars

-----------------------------------------------------------------------------
(* The summary remainder (C24), under SpecSpans                             *)

C24_Parsed == parse_markdown_table(fText)

\* character i of the content (counted from 1) lies in the span of table t
C24_InSpan(t, i) == t.start < i /\ i <= t.end

\* character i of the content lies in no recorded span
C24_Outside(i) ==
    \A k \in 1..Len(C24_Parsed.tables) : ~C24_InSpan(C24_Parsed.tables[k], i)

RECURSIVE C24_Keep(_, _)
\* the characters 1..n of the content that lie in no recorded span
C24_Keep(text, n) ==
    IF n = 0 THEN <<>>
    ELSE IF C24_Outside(n) THEN Append(C24_Keep(text, n - 1), text[n])
    ELSE C24_Keep(text, n - 1)

\* no two recorded spans share a character
C24_Disjoint ==
    \A j, k \in 1..Len(C24_Parsed.tables) :
        j # k => \/ C24_Parsed.tables[j].end <= C24_Parsed.tables[k].start
                 \/ C24_Parsed.tables[k].end <= C24_Parsed.tables[j].start

\* C24: the recorded spans never overlap and the summary is the content with
\* exactly the characters of the recorded spans deleted, then trimmed.
C24_RemainderIsRest ==
    fPc.at = "done" =>
        /\ C24_Disjoint
        /\ C24_Parsed.summary = Strip(C24_Keep(fText, Len(fText)))

-----------------------------------------------------------------------------
(* Contents of short answers, sentences with a bar and blank lines          *)

\* a one-word answer
PieceYes ==
    << "Y", "e", "s", "\n" >>

\* a sentence with a bar among its first characters
PieceBarLine ==
    << "a", " ", "|", " ", "b", " ", "c", " ", "d", "\n" >>

ParaPieces ==
    { PieceYes, PieceBarLine, PieceText, PieceBlank, PiecePipe }

NextParas ==
    \/ \E piece \in ParaPieces : AddPiece(piece)
    \/ FormatRun

SpecParas == InitFormat /\ [][NextParas]_vars

-----------------------------------------------------------------------------
(* The paragraphs of the summary (C25), under SpecParas                     *)

\* the normalized summary of the cleaned content
C25_Summary ==
    NormalizeSummary(parse_markdown_table(ContentClean(fText)).summary)

RECURSIVE C25_Blocks(_, _, _)
\* the lines i.. of a text gathered into blocks at its blank lines, cur being
\* the lines of the block under way
C25_Blocks(lines, i, cur) ==
    IF i > Len(lines) THEN (IF cur = <<>> THEN <<>> ELSE << Join(cur, << "\n" >>) >>)
    ELSE IF IsBlank(lines[i])
    THEN (IF cur = <<>> THEN <<>> ELSE << Join(cur, << "\n" >>) >>)
         \o C25_Blocks(lines, i + 1, <<>>)
    ELSE C25_Blocks(lines, i + 1, Append(cur, lines[i]))

\* a paragraph made of bars, dashes, colons and whitespace only
C25_OnlyPunctuation(para) == \A i \in 1..Len(para) : InClass("sep", para[i])

\* the paragraphs the summary has between its blank lines, the ones of
\* punctuation left out
C25_Expected ==
    SelectSeq(StripAll(C25_Blocks(Split(C25_Summary, "\n"), 1, <<>>)),
              LAMBDA p : ~C25_OnlyPunctuation(p))

\* C25: the Paragraph segments of the result are the non-blank paragraphs the
\* normalized summary has between its blank lines, in order, without those
\* made of bars, dashes, colons and whitespace only; a short answer and a
\* sentence with a bar are among them.
C25_EveryParagraphEmitted ==
    (fPc.at = "done" /\ ~fOut.raised) => ParagraphTexts(fOut.segs) = C25_Expected

-----------------------------------------------------------------------------
(* Contents of pipe rows with an empty first, last or interior cell         *)

\* a pipe row of two cells, the first one empty
PieceEmptyFirst ==
    << "|", " ", "|", "2", "|", "\n" >>

\* a pipe row of two cells, the last one empty
PieceEmptyLast ==
    << "|", "1", "|", " ", "|", "\n" >>

\* a pipe header A, B, C and its separator
PieceHead3 ==
    << "|", "A", "|", "B", "|", "C", "|", "\n", "|", "-", "|", "-", "|", "-",
       "|", "\n" >>

\* a pipe row of three cells, the one in the middle empty
PieceEmptyMid ==
    << "|", "x", "|", "|", "z", "|", "\n" >>

CellPieces ==
    { PieceHeadSep, PieceHead3, PieceEmptyFirst, PieceEmptyLast, PieceEmptyMid,
      PieceRow, PieceText }

NextCells ==
    \/ \E piece \in CellPieces : AddPiece(piece)
    \/ FormatRun

SpecCells == InitFormat /\ [][NextCells]_vars

-----------------------------------------------------------------------------
(* Cell positions in data rows (C26), under SpecCells                       *)

C26_Candidates == PipeMatches(fText, FirstPipeMatch(fText, 1, Len(fText)))

C26_Lines(m) == CandidateLines(Slice(fText, m.start, m.end))

\* the cells a line has between its first and its last bar
C26_Between(line) ==
    SubSeq(StripCells(line, "|"), 2, Len(StripCells(line, "|")) - 1)

\* the rows of the table recorded for the candidate, none if it has no table
C26_Rows(m) ==
    LET at == SelectSeq(parse_markdown_table(fText).tables,
                        LAMBDA t : t.start = m.start /\ t.end = m.end)
    IN  IF at = <<>> THEN <<>> ELSE at[1].rows

\* the candidate has its header on line 1 and its separator row on line 2
C26_Plain(m) ==
    /\ Len(C26_Lines(m)) > 2
    /\ ~IsSeparatorLine(C26_Lines(m)[1])
    /\ IsSeparatorLine(C26_Lines(m)[2])
    /\ C26_Between(C26_Lines(m)[1]) # <<>>
    /\ \A j \in 1..Len(C26_Between(C26_Lines(m)[1])) :
           C26_Between(C26_Lines(m)[1])[j] # <<>>

\* line i of the candidate is a data line with as many cells between its bars
\* as the header, one of them not empty
C26_FullLine(m, i) ==
    /\ i > 2
    /\ Len(C26_Between(C26_Lines(m)[i])) = Len(C26_Between(C26_Lines(m)[1]))
    /\ \E j \in 1..Len(C26_Between(C26_Lines(m)[i])) :
           C26_Between(C26_Lines(m)[i])[j] # <<>>

\* C26: a data line with as many bar-delimited cells as the header gives the
\* row of exactly those cells, each in its own column, also when the first,
\* the last or an interior cell is empty.
C26_CellsKeepColumn ==
    fPc.at = "done" =>
        \A k \in 1..Len(C26_Candidates) :
            C26_Plain(C26_Candidates[k]) =>
                \A i \in 1..Len(C26_Lines(C26_Candidates[k])) :
                    C26_FullLine(C26_Candidates[k], i) =>
                        \E r \in 1..Len(C26_Rows(C26_Candidates[k])) :
                            C26_Rows(C26_Candidates[k])[r]
                                = C26_Between(C26_Lines(C26_Candidates[k])[i])

-----------------------------------------------------------------------------
(* The chat page with an endpoint that answers with prose or with blank     *)
(* text or fails, and client acquisition that can fail; the page is kept    *)
(* open by its user (specification SpecTurns)                               *)

\* what the endpoint can do with a call: answer with prose, answer with
\* blank text, or fail
TurnEnvs ==
    { ReplyOf(PlainText), ReplyOf(<< " " >>),
      Env(NoExc, Raise("ValueError", << "4", "0", "1" >>), Val(<<>>)) }

\* the events of a user who types a question and sends it with the button,
\* or clears
NextTurns ==
    \/ \E trigger \in {"send-button", "clear-button"} : Fire(trigger, << "h", "i" >>)
    \/ \E i \in 1..MaxSends + 1 : Start(i)
    \/ \E i \in 1..MaxSends + 1, client \in ClientOutcomes : Built(i, client)
    \/ \E i \in 1..MaxSends + 1, env \in TurnEnvs : Arrive(i, env)

SpecTurns == Init /\ [][NextTurns]_vars

-----------------------------------------------------------------------------
(* The shape of the stored history (C27), under SpecTurns                   *)

\* a history of even length whose roles alternate, the first one user
C27_Alternates(history) ==
    /\ Len(history) % 2 = 0
    /\ \A i \in 1..Len(history) :
           history[i].role = IF i % 2 = 1 THEN "user" ELSE "assistant"

\* what get_agent_response returns when get_client raises
C27_NoClient ==
    { get_agent_response(Env(client, NoExc, Val(<<>>))).value :
          client \in ClientOutcomes \ {NoExc} }

\* what get_agent_response returns when the endpoint call fails or the reply
\* is blank
C27_NoReply ==
    { get_agent_response(env).value : env \in TurnEnvs \ {ReplyOf(PlainText)} }

\* C27: the stored history has even length and its roles alternate user,
\* assistant, starting with user; a send that returns extends the history it
\* received by the user turn and an assistant turn, whose content is the
\* diagnostic string when client acquisition or the endpoint call failed or
\* the reply was empty.
C27_TurnsAlternate ==
    /\ C27_Alternates(store)
    /\ (SendCall /\ ~lastCall.raised) =>
           /\ C27_Alternates(lastCall.history)
           /\ Len(lastCall.history) = Len(lastCall.received) + 2
           /\ lastCall.history[Len(lastCall.history) - 1] = Turn("user", lastCall.message)
           /\ lastCall.history[Len(lastCall.history)].content
                  \in (IF lastCall.called THEN C27_NoReply \cup {PlainText} ELSE C27_NoClient)

\* two sends have arrived one after the other: the first met no token and
\* made no endpoint call, the second was answered with blank text
C27_Witness ==
    /\ Len(store) = 4
    /\ SendCall /\ lastCall.called /\ ~lastCall.raised /\ lastCall.history = store
    /\ store[2].content \in C27_NoClient
    /\ store[4].content = EmptyNotice

-----------------------------------------------------------------------------
(* A send without a message (C28), under Spec                               *)

\* the last invocation was a send event whose message box held nothing or
\* whitespace only
C28_BlankSend ==
    /\ lastCall.trigger \in {"send-button", "user-input"}
    /\ \A i \in 1..Len(lastCall.message) : lastCall.message[i] \in {" ", "\t", "\n"}

\* C28: a send event whose message is missing, empty or whitespace makes no
\* endpoint call, returns the history it received unchanged and the display
\* of that history, and leaves the store as it is.
C28_BlankSendKeepsHistory ==
    C28_BlankSend =>
        /\ ~lastCall.called /\ ~lastCall.raised
        /\ lastCall.history = lastCall.received
        /\ lastCall.display = ChatDisplay(lastCall.received)
        /\ store = lastCall.received

\* Enter pressed on a message box of one blank, after a question was answered
C28_Witness ==
    /\ lastCall.trigger = "user-input" /\ lastCall.message = << " " >>
    /\ Len(lastCall.received) = 2 /\ Len(lastCall.display) = 2
    /\ store = lastCall.received

-----------------------------------------------------------------------------
(* The cache of the app client (C29), under SpecClient                      *)

\* the last call had no user token
C29_AppCall == gLast.ended /\ ~Truthy(gLast.user_token)

\* C29: once a call without user token has succeeded, every later call
\* without user token returns that same client and resolves no token: the
\* calls of a process are served one client, and a call that ends while a
\* client is cached returns it, has resolved no token and keeps the cache; a
\* call raises only while no client is cached, and leaves the cache empty.
C29_CachedClientReused ==
    /\ Cardinality(served) <= 1
    /\ (C29_AppCall /\ gLast.held # NoClient) =>
           /\ ~gLast.raised /\ ~gLast.resolved
           /\ gLast.client = gLast.held /\ gLast.after = gLast.held
    /\ gLast.raised =>
           (C29_AppCall /\ gLast.held = NoClient /\ gLast.after = NoClient)

\* the last call found no cached client at line 108 and, when it came to
\* build its own, another call had cached one
C29_Overlapped ==
    C29_AppCall /\ gLast.before = NoClient /\ gLast.held # NoClient

\* the last call ran from line 108 to its return with _cached_client as it
\* had read it: it returned the cached client without resolving a token, or
\* found none, resolved a token and cached the client it built or raised
C29_AloneReusesOrBuilds ==
    (C29_AppCall /\ gLast.held = gLast.before) =>
        /\ gLast.before # NoClient =>
               /\ ~gLast.raised /\ ~gLast.resolved
               /\ gLast.client = gLast.before /\ gLast.after = gLast.before
        /\ gLast.before = NoClient =>
               /\ gLast.resolved
               /\ gLast.raised => gLast.after = NoClient
               /\ ~gLast.raised => (gLast.after = gLast.client /\ gLast.client # NoClient)

-----------------------------------------------------------------------------
(* The table-builder scripts: attrition_reason                              *)
(* talent_data_FINAL_TESTED.py (attrition) and talent_data_v1_fixed.py     *)
(* (fact_attrition_snapshots_v1).  Decimal columns are integers in the     *)
(* unit of their rounding.                                                  *)

FinalTested == "talent_data_FINAL_TESTED"

V1Fixed == "talent_data_v1_fixed"

\* below_market_flag: when(salary_gap_pct < -10, 1).otherwise(0)
below_market_flag(sal_gap) == IF sal_gap < -100 THEN 1 ELSE 0

\* stress_level in tenths: round(hours / 5 - 1, 1) in the first script, the
\* value of the band of the hours plus the draw in the second
stress_level(row) ==
    IF row.script = FinalTested
    THEN (2 * row.work_hours_per_week - 100 + 5) \div 10
    ELSE IF row.work_hours_per_week > 550 THEN 80 + row.stress_draw
    ELSE IF row.work_hours_per_week > 500 THEN 60 + row.stress_draw
    ELSE IF row.work_hours_per_week > 450 THEN 40 + row.stress_draw
    ELSE 20 + row.stress_draw

\* burnout_flag: hours above 55 and stress above 7
burnout_flag(row) ==
    IF row.work_hours_per_week > 550 /\ stress_level(row) > 70 THEN 1 ELSE 0

\* the condition of the Low Pay branch
LowPay(row) ==
    IF row.script = FinalTested
    THEN row.below_market = 1 \/ row.comp_ratio < 900
    ELSE row.below_market = 1 \/ (row.comp_ratio < 900 /\ row.sal_gap < -50)

\* the condition of the Career Stagnation branch
Stagnation(row) == row.total_promotions = 0 /\ row.tenure_years > 300

\* the condition of the second Work-Life Balance branch
HighStress(row) == row.work_hours_per_week > 500 /\ stress_level(row) > 60

\* the chain with the burnout branch ahead of the Low Pay branch
ReasonChainBurnoutFirst(row) ==
    IF row.attrition_flag = 0 THEN NoReason
    ELSE IF burnout_flag(row) = 1 THEN "Work-Life Balance"
    ELSE IF LowPay(row) THEN "Low Pay"
    ELSE IF Stagnation(row) THEN "Career Stagnation"
    ELSE IF row.manager_draw < 35 THEN "Manager Issues"
    ELSE IF HighStress(row) THEN "Work-Life Balance"
    ELSE IF row.personal_draw < 50 THEN "Personal"
    ELSE "Relocation"

\* the when(...).when(...)...otherwise(...) chain of attrition_reason
ReasonChain(row) ==
    IF row.attrition_flag = 0 THEN NoReason
    ELSE IF LowPay(row) THEN "Low Pay"
    ELSE IF burnout_flag(row) = 1 THEN "Work-Life Balance"
    ELSE IF Stagnation(row) THEN "Career Stagnation"
    ELSE IF row.manager_draw < 35 THEN "Manager Issues"
    ELSE IF HighStress(row) THEN "Work-Life Balance"
    ELSE IF row.personal_draw < 50 THEN "Personal"
    ELSE "Relocation"

attrition_reason(row) == ReasonChain(row)

-----------------------------------------------------------------------------
(* One row through attrition_reason (specification SpecReason)              *)

\* salary_gap_pct: -10.1, -5.1, -5.0
GapValues == { -101, -51, -50 }

\* compa_ratio: 0.899, 0.900
RatioValues == { 899, 900 }

\* work_hours_per_week: 50.0, 50.5, 56.0
HourValues == { 500, 505, 560 }

\* the part of the stress level drawn in the second script: 0.0, 1.0
StressDraws(script) == IF script = FinalTested THEN { 0 } ELSE { 0, 10 }

\* tenure_years: 3.00, 3.01
TenureValues == { 300, 301 }

\* rand() around 0.35 and around 0.50
ManagerDraws == { 34, 35 }

PersonalDraws == { 49, 50 }

AttritionRows ==
    { Row(script, flag, below_market_flag(gap), ratio, gap, hours, stress, promotions,
          tenure, manager_draw, personal_draw) :
        script \in { FinalTested, V1Fixed }, flag \in { 0, 1 }, gap \in GapValues,
        ratio \in RatioValues, hours \in HourValues, stress \in { 0, 10 },
        promotions \in { 0, 1 }, tenure \in TenureValues,
        manager_draw \in ManagerDraws, personal_draw \in PersonalDraws }

InitReason ==
    /\ aRow \in { row \in AttritionRows : row.stress_draw \in StressDraws(row.script) }
    /\ aOut = NoReason /\ aPc = "input"
    /\ ExtractIdle /\ FormatIdle /\ ChatIdle /\ RowIdle /\ TokenIdle /\ ClientIdle

\* the withColumn("attrition_reason", ...) step on the row
ReasonRun ==
    /\ aPc = "input"
    /\ aOut' = attrition_reason(aRow)
    /\ aPc' = "done"
    /\ UNCHANGED <<aRow, xReply, xResult, xPc, fText, fOut, fPc, store, display, inflight,
                   lastCall, nSends, rowVars, tokenVars, clientVars>>

NextReason == ReasonRun

SpecReason == InitReason /\ [][NextReason]_vars

-----------------------------------------------------------------------------
(* attrition_reason (C30), under SpecReason                                 *)

\* the reasons in their priority order, each with whether it applies to the
\* row
C30_Priority ==
    << [reason |-> "Low Pay", applies |-> LowPay(aRow)],
       [reason |-> "Work-Life Balance", applies |-> burnout_flag(aRow) = 1],
       [reason |-> "Career Stagnation", applies |-> Stagnation(aRow)],
       [reason |-> "Manager Issues", applies |-> aRow.manager_draw < 35],
       [reason |-> "Work-Life Balance", applies |-> HighStress(aRow)],
       [reason |-> "Personal", applies |-> aRow.personal_draw < 50],
       [reason |-> "Relocation", applies |-> TRUE] >>

\* the position of the first reason that applies
C30_First ==
    CHOOSE i \in 1..Len(C30_Priority) :
        /\ C30_Priority[i].applies
        /\ \A j \in 1..(i - 1) : ~C30_Priority[j].applies

\* C30: attrition_reason is null exactly for the rows with attrition_flag = 0,
\* and a row with attrition_flag = 1 gets the first reason that applies in
\* the order Low Pay, Work-Life Balance (burnout), Career Stagnation, Manager
\* Issues, Work-Life Balance (high stress), Personal, Relocation.
C30_FirstReasonThatApplies ==
    aPc = "done" =>
        /\ (aOut = NoReason) <=> (aRow.attrition_flag = 0)
        /\ aRow.attrition_flag = 1 => aOut = C30_Priority[C30_First].reason

\* an exit of the second script for which burnout and stagnation both apply
\* and Low Pay does not: the reason is Work-Life Balance
C30_Witness ==
    /\ aPc = "done" /\ aRow.script = V1Fixed /\ aRow.attrition_flag = 1
    /\ ~LowPay(aRow) /\ burnout_flag(aRow) = 1 /\ Stagnation(aRow)
    /\ aOut = "Work-Life Balance"

=============================================================================
